---- MODULE Spec2Model ----
(***************************************************************************)
(* The multi-provider fallback engine of the travel-guide backend:         *)
(*   AIService (services/ai_service.py), ChatService (api/chat.py),        *)
(*   VisionService with the /vision chain (services/vision_service.py,     *)
(*   api/vision.py) and the standalone demo's get_ai_travel_plan           *)
(*   (demo_api.py).                                                        *)
(*                                                                         *)
(* Conventions.  A Python dict is a TLA+ record (a function on its keys),  *)
(* Python None is the record None, a confidence is kept in hundredths      *)
(* (0.6 is 60), money is kept in rupiah.  A provider text is a sequence of *)
(* chunks: "{" and "}" are the brace characters, every other chunk is a    *)
(* brace-free piece of text (prose, or a run of well-formed JSON members). *)
(***************************************************************************)
EXTENDS Integers, Sequences, FiniteSets, TLC

VARIABLES settings, now, served, task, probe

vars == <<settings, now, served, task, probe>>

(***************************************************************************)
(* Bounds of the model                                                     *)
(***************************************************************************)
\* longest provider text (in chunks) the parsers are applied to
MaxTextLen == 4
\* requests handled one after the other in one behaviour
MaxRequests == 2
\* days the clock may advance
MaxDay == 1

(***************************************************************************)
(* Program constants                                                       *)
(***************************************************************************)
\* TravelPlanRequest.duration_days: Field(..., ge=1, le=14)
MinDuration == 1
MaxDuration == 14
\* len(response_text.strip()) < 10 in ChatService._parse_chat_response
MinChatLen == 10
\* return suggestions[:3]
MaxSuggestions == 3
\* len(generated_text) > 50 in the demo's call_huggingface_ai
DemoMinTextLen == 50
\* for _ in range(30) in the demo's call_replicate_ai
DemoMaxPolls == 30

None == [py_none |-> TRUE]

\* AISource of models/schemas.py, as the strings the enum members carry
AISource == [WATSONX |-> "watsonx", HUGGINGFACE |-> "huggingface", REPLICATE |-> "replicate"]

BudgetRange == {"murah", "sedang", "mahal"}

(***************************************************************************)
(* Sequences helpers (Python str.find, str.rfind, slicing)                 *)
(***************************************************************************)
\* s.find(c): 0-based index of the first c, or -1
find(s, c) ==
  IF \E i \in 1..Len(s) : s[i] = c
  THEN (CHOOSE i \in 1..Len(s) : s[i] = c /\ \A j \in 1..(i-1) : s[j] # c) - 1
  ELSE -1

\* s.rfind(c): 0-based index of the last c, or -1
rfind(s, c) ==
  IF \E i \in 1..Len(s) : s[i] = c
  THEN (CHOOSE i \in 1..Len(s) : s[i] = c /\ \A j \in (i+1)..Len(s) : s[j] # c) - 1
  ELSE -1

\* s[a:b] for 0 <= a, 0 <= b <= len(s)
Slice(s, a, b) == SubSeq(s, a + 1, b)

\* a dict updated with another one (later keys win, as json.loads and dict.update do)
Merge(a, b) ==
  [k \in (DOMAIN a) \cup (DOMAIN b) |-> IF k \in DOMAIN b THEN b[k] ELSE a[k]]

EmptyDict == [k \in {} |-> 0]

\* all sequences over S of length 0..n
SeqsUpTo(S, n) == UNION {[1..k -> S] : k \in 0..n}

(***************************************************************************)
(* Provider texts and json.loads                                           *)
(***************************************************************************)
\* The members a brace-free chunk of JSON text stands for.
\*   plan5: the five fields _parse_travel_response requires
\*   plan4: the same without cost_estimate
\*   meta : the provider's own ai_source and an out-of-range confidence (1.5)
\*   lm   : landmarks only;  sum: summary and confidence
\*   demo5: the five fields the demo requires;  demo4: without estimated_cost
ProviderDay(d) ==
  [day |-> d, date |-> 0,
   activities |-> <<[time |-> "09:00", activity |-> <<"provider activity">>,
                     location |-> "Provider City",
                     description |-> "provider text", estimated_cost |-> 100000]>>,
   estimated_cost |-> 300000]

ProviderCost ==
  [accommodation |-> 500000, food |-> 300000, transport |-> 200000,
   activities |-> 400000, total |-> 1400000, currency |-> "IDR"]

ChunkMembers(c) ==
  CASE c = "plan5" -> [title |-> <<"provider title">>, destination |-> "Provider City",
                       duration_days |-> 2,
                       daily_routes |-> <<ProviderDay(1), ProviderDay(2)>>,
                       cost_estimate |-> ProviderCost]
    [] c = "plan4" -> [title |-> <<"provider title">>, destination |-> "Provider City",
                       duration_days |-> 2,
                       daily_routes |-> <<ProviderDay(1), ProviderDay(2)>>]
    [] c = "meta"  -> [ai_source |-> "payload", confidence |-> 150]
    [] c = "lm"    -> [landmarks |-> <<[name |-> "Provider landmark",
                                        description |-> "provider text",
                                        confidence |-> 80]>>]
    [] c = "sum"   -> [summary |-> <<"provider summary">>, confidence |-> 80]
    [] c = "demo5" -> [destination |-> "Provider City", duration |-> 2,
                       itinerary |-> <<"Day 1", "Day 2">>, tips |-> "provider tips",
                       estimated_cost |-> <<"Rp", 1>>]
    [] c = "demo4" -> [destination |-> "Provider City", duration |-> 2,
                       itinerary |-> <<"Day 1", "Day 2">>, tips |-> "provider tips"]

MemberChunks == {"plan5", "plan4", "meta", "lm", "sum", "demo5", "demo4"}

RECURSIVE MergeMembers(_)
MergeMembers(s) ==
  IF s = <<>> THEN EmptyDict
  ELSE Merge(MergeMembers(SubSeq(s, 1, Len(s) - 1)), ChunkMembers(s[Len(s)]))

\* json.loads: the text decodes exactly when it is one object, "{" members "}";
\* prose, a stray brace or nothing at all raises JSONDecodeError.
json_loads(s) ==
  IF /\ Len(s) >= 2
     /\ s[1] = "{"
     /\ s[Len(s)] = "}"
     /\ \A i \in 2..(Len(s) - 1) : s[i] \in MemberChunks
  THEN [ok |-> TRUE, obj |-> MergeMembers(SubSeq(s, 2, Len(s) - 1))]
  ELSE [ok |-> FALSE, obj |-> EmptyDict]

PlanChunks == {"{", "}", "x", "plan5", "plan4", "meta"}
VisionChunks == {"{", "}", "x", "lm", "sum"}
DemoChunks == {"{", "}", "x", "demo5", "demo4"}

(***************************************************************************)
(* Response parsers                                                        *)
(***************************************************************************)
required_fields == {"title", "destination", "duration_days", "daily_routes", "cost_estimate"}

\* an extraction that ends at the first "}" after the first "{"
ExtractJson_Narrow(response_text) ==
  LET start_idx == find(response_text, "{")
      closing   == {i \in 1..Len(response_text) :
                      response_text[i] = "}" /\ i - 1 > start_idx}
      end_idx   == IF closing = {} THEN 0
                   ELSE CHOOSE i \in closing : \A j \in closing : i <= j
  IN  IF start_idx # -1 /\ end_idx > start_idx
      THEN [found |-> TRUE, json_str |-> Slice(response_text, start_idx, end_idx)]
      ELSE [found |-> FALSE, json_str |-> <<>>]

\* AIService._parse_travel_response, the extraction it makes before decoding
ExtractJson(response_text) ==
  LET start_idx == find(response_text, "{")
      end_idx   == rfind(response_text, "}") + 1
  IN  IF start_idx # -1 /\ end_idx > start_idx
      THEN [found |-> TRUE, json_str |-> Slice(response_text, start_idx, end_idx)]
      ELSE [found |-> FALSE, json_str |-> <<>>]

\* the parser without its required-field validation
_parse_travel_response_NoValidation(response_text) ==
  LET ex == ExtractJson(response_text)
  IN  IF ~ex.found THEN None
      ELSE LET parsed == json_loads(ex.json_str)
           IN  IF ~parsed.ok THEN None ELSE parsed.obj

\* AIService._parse_travel_response
_parse_travel_response(response_text) ==
  LET ex == ExtractJson(response_text)
  IN  IF ~ex.found THEN None
      ELSE LET parsed == json_loads(ex.json_str)
           IN  IF ~parsed.ok THEN None      \* JSONDecodeError, logged
               ELSE IF required_fields \subseteq DOMAIN parsed.obj THEN parsed.obj
               ELSE None

\* VisionService._parse_vision_json
_parse_vision_json(response_text) ==
  LET ex == ExtractJson(response_text)
  IN  IF ~ex.found THEN None
      ELSE LET parsed == json_loads(ex.json_str)
           IN  IF ~parsed.ok THEN None
               ELSE IF "landmarks" \in DOMAIN parsed.obj THEN parsed.obj
               ELSE None

demo_required == {"destination", "duration", "itinerary", "tips", "estimated_cost"}

\* The parsing block of the demo's get_ai_travel_plan.  end_idx is rfind + 1, so the
\* test end_idx != -1 always passes; an empty or reversed slice fails in json.loads
\* and the broad except swallows it.
demo_parse(ai_response) ==
  LET start_idx == find(ai_response, "{")
      end_idx   == rfind(ai_response, "}") + 1
  IN  IF start_idx # -1 /\ end_idx # -1
      THEN LET parsed == json_loads(Slice(ai_response, start_idx, end_idx))
           IN  IF ~parsed.ok THEN None
               ELSE IF demo_required \subseteq DOMAIN parsed.obj THEN parsed.obj
               ELSE None
      ELSE None

\* The chunks of a chat text and the characters each stands for: "sp" one blank,
\* "c" one letter, "w9" a nine-letter word, "J" the marker "Jawaban:", and one word
\* of each keyword group of _generate_suggestions.
ChatChunks == {"sp", "c", "w9", "J", "jakarta", "biaya", "kuliner", "hotel"}

ChunkLen(c) ==
  CASE c = "sp" -> 1
    [] c = "c" -> 1
    [] c = "w9" -> 9
    [] c = "J" -> 8
    [] c = "jakarta" -> 7
    [] c = "biaya" -> 5
    [] c = "kuliner" -> 7
    [] c = "hotel" -> 5
    [] c \in {"{", "}"} -> 1
    [] c = "x" -> 60
    [] c \in {"demo5", "demo4"} -> 200
    [] OTHER -> 100

RECURSIVE len(_)
len(s) == IF s = <<>> THEN 0 ELSE ChunkLen(Head(s)) + len(Tail(s))

RECURSIVE lstrip(_)
lstrip(s) == IF s # <<>> /\ Head(s) = "sp" THEN lstrip(Tail(s)) ELSE s

RECURSIVE rstrip(_)
rstrip(s) ==
  IF s # <<>> /\ s[Len(s)] = "sp" THEN rstrip(SubSeq(s, 1, Len(s) - 1)) ELSE s

strip(s) == rstrip(lstrip(s))

Contains(s, c) == \E i \in 1..Len(s) : s[i] = c

\* the elements of seq that satisfy keep, in order
RECURSIVE Filter(_, _)
Filter(seq, keep) ==
  IF seq = <<>> THEN <<>>
  ELSE IF Head(seq) \in keep THEN <<Head(seq)>> \o Filter(Tail(seq), keep)
  ELSE Filter(Tail(seq), keep)

Take(seq, n) == SubSeq(seq, 1, IF Len(seq) < n THEN Len(seq) ELSE n)

\* suggestions returned without the cut to three
_generate_suggestions_Uncut(answer) ==
  LET suggestions ==
        (IF Contains(answer, "jakarta")
           THEN <<"Tanyakan tentang transportasi antar kota">> ELSE <<>>)
        \o (IF Contains(answer, "biaya")
           THEN <<"Minta tips menghemat biaya perjalanan">> ELSE <<>>)
        \o (IF Contains(answer, "kuliner")
           THEN <<"Rekomendasi makanan khas daerah lain">> ELSE <<>>)
        \o (IF Contains(answer, "hotel")
           THEN <<"Tips memilih akomodasi yang aman">> ELSE <<>>)
  IN  IF suggestions = <<>>
      THEN <<"Tanyakan tentang destinasi wisata populer",
             "Minta estimasi budget perjalanan",
             "Tips perjalanan untuk pemula">>
      ELSE suggestions

\* ChatService._generate_suggestions
_generate_suggestions(answer) ==
  LET suggestions ==
        (IF Contains(answer, "jakarta")
           THEN <<"Tanyakan tentang transportasi antar kota">> ELSE <<>>)
        \o (IF Contains(answer, "biaya")
           THEN <<"Minta tips menghemat biaya perjalanan">> ELSE <<>>)
        \o (IF Contains(answer, "kuliner")
           THEN <<"Rekomendasi makanan khas daerah lain">> ELSE <<>>)
        \o (IF Contains(answer, "hotel")
           THEN <<"Tips memilih akomodasi yang aman">> ELSE <<>>)
      defaulted ==
        IF suggestions = <<>>
        THEN <<"Tanyakan tentang destinasi wisata populer",
               "Minta estimasi budget perjalanan",
               "Tips perjalanan untuk pemula">>
        ELSE suggestions
  IN  Take(defaulted, MaxSuggestions)

\* ChatService._parse_chat_response
_parse_chat_response(response_text) ==
  IF response_text = <<>> \/ len(strip(response_text)) < MinChatLen THEN None
  ELSE LET stripped == strip(response_text)
           answer == IF Contains(stripped, "J")
                     THEN strip(Slice(stripped, rfind(stripped, "J") + 1, Len(stripped)))
                     ELSE stripped
       IN  [answer |-> answer, confidence |-> 80,
            suggestions |-> _generate_suggestions(answer)]

\* ChatService._baseline_response
_baseline_response ==
  [answer |-> <<"Maaf, gangguan teknis; kunjungi Kementerian Pariwisata">>,
   ai_source |-> "baseline",
   confidence |-> 10,
   suggestions |-> <<"Coba tanyakan tentang destinasi wisata populer",
                     "Tanyakan tentang budget perjalanan",
                     "Minta tips perjalanan">>]

(***************************************************************************)
(* Vision results                                                          *)
(***************************************************************************)
\* the keys of landmarks_db in the order the dict lists them
landmarks_db == <<"monas", "borobudur", "prambanan", "uluwatu", "bromo", "toba">>

MaxOf(S) ==
  LET x == CHOOSE y \in S : \A z \in S : z <= y IN x

\* VisionService._process_vision_result; description is the caption's words
_process_vision_result(description) ==
  LET hits == Filter(landmarks_db, {description[i] : i \in 1..Len(description)})
      detected_landmarks ==
        IF hits = <<>>
        THEN <<[name |-> "Tempat wisata Indonesia",
                description |-> "Lokasi wisata yang menarik di Indonesia",
                location |-> "Indonesia", category |-> "tourism", confidence |-> 40]>>
        ELSE [i \in 1..Len(hits) |->
                [name |-> hits[i], description |-> "Landmark terkenal",
                 location |-> hits[i], category |-> hits[i], confidence |-> 70]]
  IN  [landmarks |-> detected_landmarks,
       summary |-> <<"Terdeteksi", Len(detected_landmarks)>>,
       confidence |-> MaxOf({detected_landmarks[i].confidence :
                               i \in 1..Len(detected_landmarks)})]

\* VisionService._process_clip_result; clip_result is the best match (label, score)
_process_clip_result(clip_result) ==
  [landmarks |-> <<[name |-> clip_result.label,
                    description |-> "Landmark yang teridentifikasi",
                    confidence |-> clip_result.score]>>,
   summary |-> <<"Teridentifikasi sebagai", clip_result.label>>,
   confidence |-> clip_result.score]

\* the fallback response of the /vision chain (api/vision.py) and of
\* AIService.analyze_image (the two differ only in the wording of the description)
vision_baseline ==
  [landmarks |-> <<[name |-> "Landmark tidak dikenali",
                    description |-> "Mohon coba dengan gambar yang lebih jelas",
                    confidence |-> 10]>>,
   summary |-> <<"Tidak dapat mengidentifikasi landmark dalam gambar">>,
   ai_source |-> "baseline",
   confidence |-> 10]

(***************************************************************************)
(* Baseline synthesizer                                                    *)
(***************************************************************************)
\* dict.get(key, default)
Get(d, k, default) == IF k \in DOMAIN d THEN d[k] ELSE default

RECURSIVE SumCosts(_)
SumCosts(days) ==
  IF days = <<>> THEN 0 ELSE Head(days).estimated_cost + SumCosts(Tail(days))

\* a day whose cost also depends on its number
BaselineDay_DayDependent(day, destination, budget, today) ==
  [day |-> day,
   date |-> today + (day - 1),
   activities |-> <<[time |-> "09:00",
                     activity |-> <<"Jelajahi", destination, "Hari", day>>,
                     location |-> destination,
                     description |-> "Kunjungi tempat wisata populer di sekitar area",
                     estimated_cost |-> IF budget = "murah" THEN 100000
                                        ELSE IF budget = "sedang" THEN 200000
                                        ELSE 500000]>>,
   estimated_cost |-> day * (IF budget = "murah" THEN 150000
                             ELSE IF budget = "sedang" THEN 300000
                             ELSE 750000)]

\* the dict appended for one day in the loop of _baseline_travel_plan
BaselineDay(day, destination, budget, today) ==
  [day |-> day,
   date |-> today + (day - 1),
   activities |-> <<[time |-> "09:00",
                     activity |-> <<"Jelajahi", destination, "Hari", day>>,
                     location |-> destination,
                     description |-> "Kunjungi tempat wisata populer di sekitar area",
                     estimated_cost |-> IF budget = "murah" THEN 100000
                                        ELSE IF budget = "sedang" THEN 200000
                                        ELSE 500000]>>,
   estimated_cost |-> IF budget = "murah" THEN 150000
                      ELSE IF budget = "sedang" THEN 300000
                      ELSE 750000]

\* a cost breakdown with activities at 20% (the split no longer adds up)
cost_estimate_WrongSplit(total_cost) ==
  [accommodation |-> (total_cost * 4) \div 10,
   food |-> (total_cost * 3) \div 10,
   transport |-> (total_cost * 2) \div 10,
   activities |-> (total_cost * 2) \div 10,
   total |-> total_cost,
   currency |-> "IDR"]

\* the "cost_estimate" dict of _baseline_travel_plan.  total_cost * 0.4 and the like
\* are float products; for the totals the three cost bands can produce they are
\* exact, so they are computed as total_cost * 4 / 10.
cost_estimate(total_cost) ==
  [accommodation |-> (total_cost * 4) \div 10,
   food |-> (total_cost * 3) \div 10,
   transport |-> (total_cost * 2) \div 10,
   activities |-> (total_cost * 1) \div 10,
   total |-> total_cost,
   currency |-> "IDR"]

\* the day loop written as range(1, duration): the last day is lost
BaselineDays_OffByOne(request_data, today) ==
  [day \in 1..(Get(request_data, "duration_days", 3) - 1) |->
     BaselineDay(day, Get(request_data, "destination", "Jakarta"),
                 Get(request_data, "budget_range", "sedang"), today)]

\* daily_routes as the loop "for day in range(1, duration + 1)" builds it
BaselineDays(request_data, today) ==
  [day \in 1..Get(request_data, "duration_days", 3) |->
     BaselineDay(day, Get(request_data, "destination", "Jakarta"),
                 Get(request_data, "budget_range", "sedang"), today)]

\* AIService._baseline_travel_plan; today is datetime.now() as a day number
_baseline_travel_plan(request_data, today) ==
  LET destination == Get(request_data, "destination", "Jakarta")
      duration == Get(request_data, "duration_days", 3)
      daily_routes == BaselineDays(request_data, today)
      total_cost == SumCosts(daily_routes)
  IN  [title |-> <<"Perjalanan", duration, "Hari ke", destination>>,
       destination |-> destination,
       duration_days |-> duration,
       daily_routes |-> daily_routes,
       cost_estimate |-> cost_estimate(total_cost),
       ai_source |-> "baseline",
       confidence |-> 60]

(***************************************************************************)
(* State                                                                   *)
(*   settings  which credentials and flags of core/config.py are set       *)
(*   now       the current day (datetime.now())                            *)
(*   served    requests answered so far                                    *)
(*   task      the coroutine handling the current request                  *)
(*   probe     a direct application of one pure function to one input      *)
(***************************************************************************)
Settings ==
  [WATSONX_API_KEY : BOOLEAN, WATSONX_PROJECT_ID : BOOLEAN, HF_API_KEY : BOOLEAN,
   REPLICATE_API_TOKEN : BOOLEAN, USE_REPLICATE : BOOLEAN]

\* the entry points: AIService.generate_travel_plan, ChatService.generate_response,
\* AIService.chat_response, AIService.analyze_image, the /vision chain, and the
\* demo's get_ai_travel_plan
Entries == {"plan", "chat", "ai_chat", "ai_vision", "vision", "demo"}

NoRequest == [kind |-> "none"]

\* calls     the adapters (and baseline) the orchestrator has invoked, in order
\* outcomes  what each invoked adapter gave back: "result", "none" or "exception"
\* http      the outbound HTTP requests issued, in order
\* inflight  the outbound HTTP requests not yet answered
\* log       the providers named in logger.warning calls, in order
\* model_idx the candidate model the Hugging Face adapter is waiting for
\* polls     the status fetches the demo's Replicate loop has made
\* ai_response the demo's ai_response variable
\* response  how the last outbound call of the adapter being run was answered
\*           (the kind of the reply; "none" before the adapter's first answer)
\* user      whether the route has a current_user (a logged-in caller)
\* saved     the database records the route has committed
\* status    the HTTP status the route answers with (0: no answer yet)
\* cancelled whether the request was cancelled, and cancelled_at the number of
\*           adapters invoked by then
IdleTask ==
  [entry |-> "none", request_data |-> NoRequest, pc |-> "idle",
   calls |-> <<>>, outcomes |-> <<>>, http |-> <<>>, inflight |-> {},
   log |-> <<>>, model_idx |-> 0, polls |-> 0, ai_response |-> None,
   result |-> None, response |-> "none", user |-> FALSE, saved |-> <<>>,
   status |-> 0, cancelled |-> FALSE, cancelled_at |-> 0]

\* a direct call of one function: its argument, its result, the result of calling
\* it once more with the same argument, and, for a function followed step by
\* step, its position and its selected_activities
NoProbe ==
  [fn |-> "none", applied |-> FALSE, input |-> <<>>, output |-> None,
   again |-> FALSE, output2 |-> None,
   pc |-> "call", selected_activities |-> <<>>]

\* the request descriptors the web layer hands to each entry point
PlanRequests ==
  {[destination |-> d, duration_days |-> n, budget_range |-> b] :
     d \in {"Bandung"}, n \in {MinDuration, 3}, b \in BudgetRange}

ChatRequests == {[message |-> "halo"]}

VisionRequests == {[image_data |-> v] : v \in {"base64", "not base64"}}

DemoRequests ==
  {[destination |-> "Samarinda", duration |-> 4, budget |-> "high",
    interests |-> <<"adventure", "nature">>]}

RequestsOf(e) ==
  CASE e = "plan" -> PlanRequests
    [] e \in {"chat", "ai_chat"} -> ChatRequests
    [] e \in {"vision", "ai_vision"} -> VisionRequests
    [] e = "demo" -> DemoRequests

\* what an outbound HTTP call can come back with:
\*   error      the call raises (timeout, connection error)
\*   status     an answer whose status code is not the expected one
\*   malformed  the expected status with a body that response.json() or the
\*              indexing of its fields cannot handle (raises)
\*   pending    (status fetch) a job whose status is not "succeeded"
\*   list       (status fetch) a succeeded job whose output is a list of strings
\*   ok         the expected status with generated text
Reply(kind, text) == [kind |-> kind, text |-> text]

PlanTexts ==
  {<<>>, <<"x">>, <<"{", "plan5", "}">>, <<"x", "{", "plan5", "meta", "}", "x">>,
   <<"{", "plan4", "}">>}

ChatTexts ==
  {<<>>, <<"w9">>, <<"w9", "c">>, <<"c", "c", "J">>,
   <<"J", "jakarta", "sp", "biaya", "sp", "kuliner", "sp", "hotel">>}

VisionTexts ==
  {<<>>, <<"x">>, <<"{", "lm", "sum", "}">>, <<"{", "lm", "}">>, <<"{", "sum", "}">>}

Captions == {<<>>, <<"monas">>, <<"a", "toba", "borobudur">>}

TextsOf(e) == IF e = "plan" THEN PlanTexts ELSE ChatTexts

PostReplies(texts) ==
  {Reply(k, <<>>) : k \in {"error", "status", "malformed"}}
    \cup {Reply("ok", t) : t \in texts}

GetReplies(texts) ==
  PostReplies(texts) \cup {Reply(k, <<>>) : k \in {"pending", "list"}}

\* what an adapter hands to its caller: a value, or an exception
Return(v) == [raised |-> FALSE, val |-> v]
Raise == [raised |-> TRUE, val |-> None]

\* Python truthiness of a dict-or-None
Truthy(v) == v # None /\ DOMAIN v # {}

Init ==
  /\ settings \in Settings
  /\ now = 0
  /\ served = 0
  /\ task = IdleTask
  /\ probe = NoProbe

(***************************************************************************)
(* AIService.generate_travel_plan and ChatService.generate_response        *)
(***************************************************************************)
\* the parser the adapters of an entry point hand the generated text to
Parse(e, text) ==
  IF e = "plan" THEN _parse_travel_response(text) ELSE _parse_chat_response(text)

\* a try block that forgets "return result": the result is kept, the chain goes on
TryStage_NoReturn(t, source, next_pc, r) ==
  IF r.raised
  THEN [t EXCEPT !.outcomes = Append(@, "exception"),
                 !.log = Append(@, source),
                 !.pc = next_pc]
  ELSE IF Truthy(r.val)
  THEN [t EXCEPT !.outcomes = Append(@, "result"),
                 !.result = Merge(r.val, [ai_source |-> source]),
                 !.pc = next_pc]
  ELSE [t EXCEPT !.outcomes = Append(@, "none"),
                 !.pc = next_pc]

\* a try block without its except clause: the exception reaches the caller
TryStage_NoExcept(t, source, next_pc, r) ==
  IF r.raised
  THEN [t EXCEPT !.outcomes = Append(@, "exception"),
                 !.pc = "raised"]
  ELSE IF Truthy(r.val)
  THEN [t EXCEPT !.outcomes = Append(@, "result"),
                 !.result = Merge(r.val, [ai_source |-> source]),
                 !.pc = "done"]
  ELSE [t EXCEPT !.outcomes = Append(@, "none"),
                 !.pc = next_pc]

\* a try block that tags with setdefault: the payload's own ai_source wins
TryStage_PayloadTag(t, source, next_pc, r) ==
  IF r.raised
  THEN [t EXCEPT !.outcomes = Append(@, "exception"),
                 !.log = Append(@, source),
                 !.pc = next_pc]
  ELSE IF Truthy(r.val)
  THEN [t EXCEPT !.outcomes = Append(@, "result"),
                 !.result = Merge([ai_source |-> source], r.val),
                 !.pc = "done"]
  ELSE [t EXCEPT !.outcomes = Append(@, "none"),
                 !.pc = next_pc]

\* One try block of the fallback chain, from the adapter's return on:
\*     result = await self._<provider>_...(...)
\*     if result: result["ai_source"] = AISource.<PROVIDER>; return result
\*   except Exception as e: logger.warning(...)
\* t is the task, source the block's AISource, next_pc the block that follows.
TryStage(t, source, next_pc, r) ==
  IF r.raised
  THEN [t EXCEPT !.outcomes = Append(@, "exception"),
                 !.log = Append(@, source),
                 !.pc = next_pc]
  ELSE IF Truthy(r.val)
  THEN [t EXCEPT !.outcomes = Append(@, "result"),
                 !.result = Merge(r.val, [ai_source |-> source]),
                 !.pc = "done"]
  ELSE [t EXCEPT !.outcomes = Append(@, "none"),
                 !.pc = next_pc]

\* an adapter is entered
Invoke(t, adapter) == [t EXCEPT !.calls = Append(@, adapter), !.response = "none"]

\* an adapter sends an HTTP request and waits for the answer
Send(t, provider, wait_pc) ==
  [t EXCEPT !.http = Append(@, provider),
            !.inflight = @ \cup {provider},
            !.pc = wait_pc]

\* an answer that is handled while its request still counts as outstanding
Receive_KeepsInflight(t, provider, o) ==
  [t EXCEPT !.response = o.kind]

\* the answer o to the outstanding request arrives (or the wait for it fails)
Receive(t, provider, o) ==
  [t EXCEPT !.inflight = @ \ {provider}, !.response = o.kind]

\* _watsonx_travel_plan / _watsonx_chat after the POST:
\*   if response.status_code == 200: return self._parse_...(result...[0].get(...))
\*   return None
\* nothing is caught inside the adapter
_watsonx_reply(e, o) ==
  CASE o.kind \in {"error", "malformed"} -> Raise
    [] o.kind = "ok" -> Return(Parse(e, o.text))
    [] OTHER -> Return(None)

\* try: result = await self._watsonx_...; the adapter returns None at once when
\* the API key or the project id is missing, and posts otherwise
WatsonxInvoke ==
  /\ task.entry \in {"plan", "chat"}
  /\ task.pc = "watsonx"
  /\ task' = IF ~settings.WATSONX_API_KEY \/ ~settings.WATSONX_PROJECT_ID
             THEN TryStage(Invoke(task, "watsonx"), AISource.WATSONX,
                           "huggingface", Return(None))
             ELSE Send(Invoke(task, "watsonx"), "watsonx", "watsonx_post")
  /\ UNCHANGED <<settings, now, served, probe>>

WatsonxReply(o) ==
  /\ task.entry \in {"plan", "chat"}
  /\ task.pc = "watsonx_post"
  /\ task' = TryStage(Receive(task, "watsonx", o), AISource.WATSONX, "huggingface",
                      _watsonx_reply(task.entry, o))
  /\ UNCHANGED <<settings, now, served, probe>>

\* models = [...] of _huggingface_travel_plan and _huggingface_chat
models == <<"microsoft/DialoGPT-medium", "facebook/blenderbot-400M-distill",
            "google/flan-t5-base">>

\* the body of "for model in models" for one answer: the parsed text when the
\* status is 200 and the body a non-empty list, otherwise nothing (an exception
\* is caught inside the loop and logged)
_huggingface_model_reply(e, o) ==
  IF o.kind = "ok" THEN Parse(e, o.text) ELSE None

HuggingfaceInvoke ==
  /\ task.entry \in {"plan", "chat"}
  /\ task.pc = "huggingface"
  /\ task' = IF ~settings.HF_API_KEY
             THEN TryStage(Invoke(task, "huggingface"), AISource.HUGGINGFACE,
                           "replicate", Return(None))
             ELSE [Send(Invoke(task, "huggingface"), "huggingface", "huggingface_post")
                     EXCEPT !.model_idx = 1]
  /\ UNCHANGED <<settings, now, served, probe>>

\* a loop that goes through every candidate and keeps the last output that parsed
HuggingfaceReply_LastWins(o) ==
  /\ task.entry \in {"plan", "chat"}
  /\ task.pc = "huggingface_post"
  /\ LET parsed == _huggingface_model_reply(task.entry, o)
         t == Receive(task, "huggingface", o)
         kept == IF Truthy(parsed) THEN [t EXCEPT !.result = parsed] ELSE t
     IN  task' = IF task.model_idx < Len(models)
                 THEN [Send(kept, "huggingface", "huggingface_post")
                         EXCEPT !.model_idx = @ + 1]
                 ELSE TryStage([kept EXCEPT !.model_idx = 0, !.result = None],
                               AISource.HUGGINGFACE, "replicate", Return(kept.result))
  /\ UNCHANGED <<settings, now, served, probe>>

HuggingfaceReply(o) ==
  /\ task.entry \in {"plan", "chat"}
  /\ task.pc = "huggingface_post"
  /\ LET parsed == _huggingface_model_reply(task.entry, o)
         t == Receive(task, "huggingface", o)
         logged == IF o.kind \in {"error", "malformed"} THEN [t EXCEPT !.log = Append(@, "hf model")]
                   ELSE t
     IN  task' = IF Truthy(parsed)
                 THEN TryStage([logged EXCEPT !.model_idx = 0], AISource.HUGGINGFACE,
                               "replicate", Return(parsed))
                 ELSE IF task.model_idx < Len(models)
                 THEN [Send(logged, "huggingface", "huggingface_post")
                         EXCEPT !.model_idx = @ + 1]
                 ELSE TryStage([logged EXCEPT !.model_idx = 0], AISource.HUGGINGFACE,
                               "replicate", Return(None))
  /\ UNCHANGED <<settings, now, served, probe>>

\* _replicate_travel_plan / _replicate_chat after the POST: 201 goes on to the
\* sleep and the status fetch, anything else returns None; nothing is caught
_replicate_post_reply(o) ==
  CASE o.kind \in {"error", "malformed"} -> Raise
    [] OTHER -> Return(None)

\* ... and after the GET
_replicate_get_reply(e, o) ==
  CASE o.kind \in {"error", "malformed", "list"} -> Raise
    [] o.kind = "ok" -> Return(Parse(e, o.text))
    [] OTHER -> Return(None)

\* if settings.USE_REPLICATE and settings.REPLICATE_API_TOKEN: try: ...
ReplicateInvoke ==
  /\ task.entry \in {"plan", "chat"}
  /\ task.pc = "replicate"
  /\ task' = IF settings.USE_REPLICATE /\ settings.REPLICATE_API_TOKEN
             THEN IF ~settings.REPLICATE_API_TOKEN
                  THEN TryStage(Invoke(task, "replicate"), AISource.REPLICATE,
                                "baseline", Return(None))
                  ELSE Send(Invoke(task, "replicate"), "replicate", "replicate_post")
             ELSE [task EXCEPT !.pc = "baseline"]
  /\ UNCHANGED <<settings, now, served, probe>>

ReplicatePostReply(o) ==
  /\ task.entry \in {"plan", "chat"}
  /\ task.pc = "replicate_post"
  /\ task' = IF o.kind = "ok"
             THEN [Receive(task, "replicate", o) EXCEPT !.pc = "replicate_sleep"]
             ELSE TryStage(Receive(task, "replicate", o), AISource.REPLICATE, "baseline",
                           _replicate_post_reply(o))
  /\ UNCHANGED <<settings, now, served, probe>>

\* await asyncio.sleep(2) is over: the single status fetch is sent
ReplicateFetch ==
  /\ task.entry \in {"plan", "chat"}
  /\ task.pc = "replicate_sleep"
  /\ task' = Send(task, "replicate", "replicate_get")
  /\ UNCHANGED <<settings, now, served, probe>>

ReplicateGetReply(o) ==
  /\ task.entry \in {"plan", "chat"}
  /\ task.pc = "replicate_get"
  /\ task' = TryStage(Receive(task, "replicate", o), AISource.REPLICATE, "baseline",
                      _replicate_get_reply(task.entry, o))
  /\ UNCHANGED <<settings, now, served, probe>>

\* a baseline stage that fails: the exception reaches the caller
Baseline_Raises ==
  /\ task.entry \in {"plan", "chat"}
  /\ task.pc = "baseline"
  /\ task' = [Invoke(task, "baseline") EXCEPT !.outcomes = Append(@, "exception"),
                                              !.pc = "raised"]
  /\ UNCHANGED <<settings, now, served, probe>>

\* return await self._baseline_travel_plan(request_data)
\* return self._baseline_response(message)
Baseline ==
  /\ task.entry \in {"plan", "chat"}
  /\ task.pc = "baseline"
  /\ task' = [Invoke(task, "baseline") EXCEPT
                !.outcomes = Append(@, "result"),
                !.result = IF task.entry = "plan"
                           THEN _baseline_travel_plan(task.request_data, now)
                           ELSE _baseline_response,
                !.pc = "done"]
  /\ UNCHANGED <<settings, now, served, probe>>

(***************************************************************************)
(* AIService.chat_response and AIService.analyze_image                     *)
(***************************************************************************)
\* the methods class AIService defines
AIService_methods ==
  {"__init__", "__aenter__", "__aexit__", "generate_travel_plan", "analyze_image",
   "chat_response", "_watsonx_travel_plan", "_huggingface_travel_plan",
   "_replicate_travel_plan", "_baseline_travel_plan", "_create_travel_prompt",
   "_parse_travel_response"}

\* await self.<name>(...) inside a try block of chat_response or analyze_image:
\* the attribute lookup raises AttributeError unless the class defines the method.
\* (It defines none of the six names these two entry points use; the adapters it
\* does define are the ones modelled step by step above.)
SelfCall(name) == IF name \in AIService_methods THEN Return(None) ELSE Raise

\* the dict chat_response returns after its try blocks
ai_chat_baseline ==
  [answer |-> <<"Maaf, gangguan teknis; hubungi customer service">>,
   confidence |-> 10,
   suggestions |-> <<"Coba tanyakan tentang destinasi wisata populer",
                     "Tanyakan tentang budget perjalanan">>]

\* AIService.chat_response: no await ever suspends, the whole call is one step
chat_response ==
  /\ task.entry = "ai_chat"
  /\ task.pc = "watsonx"
  /\ LET t1 == TryStage(task, AISource.WATSONX, "huggingface", SelfCall("_watsonx_chat"))
         t2 == IF t1.pc = "done" THEN t1
               ELSE TryStage(t1, AISource.HUGGINGFACE, "replicate",
                             SelfCall("_huggingface_chat"))
         t3 == IF t2.pc = "done" THEN t2
               ELSE IF settings.USE_REPLICATE /\ settings.REPLICATE_API_TOKEN
               THEN TryStage(t2, AISource.REPLICATE, "baseline",
                             SelfCall("_replicate_chat"))
               ELSE [t2 EXCEPT !.pc = "baseline"]
     IN  task' = IF t3.pc = "done" THEN t3
                 ELSE [Invoke(t3, "baseline") EXCEPT !.result = ai_chat_baseline,
                                                     !.pc = "done"]
  /\ UNCHANGED <<settings, now, served, probe>>

\* AIService.analyze_image
analyze_image ==
  /\ task.entry = "ai_vision"
  /\ task.pc = "huggingface"
  /\ LET t1 == TryStage(task, AISource.HUGGINGFACE, "watsonx",
                        SelfCall("_huggingface_vision"))
         t2 == IF t1.pc = "done" THEN t1
               ELSE TryStage(t1, AISource.WATSONX, "replicate",
                             SelfCall("_watsonx_vision"))
         t3 == IF t2.pc = "done" THEN t2
               ELSE IF settings.USE_REPLICATE /\ settings.REPLICATE_API_TOKEN
               THEN TryStage(t2, AISource.REPLICATE, "baseline",
                             SelfCall("_replicate_vision"))
               ELSE [t2 EXCEPT !.pc = "baseline"]
     IN  task' = IF t3.pc = "done" THEN t3
                 ELSE [Invoke(t3, "baseline") EXCEPT !.result = vision_baseline,
                                                     !.pc = "done"]
  /\ UNCHANGED <<settings, now, served, probe>>

(***************************************************************************)
(* The /vision chain of api/vision.py over VisionService                   *)
(***************************************************************************)
\* One branch of the chain: no try block surrounds the adapter call, so an
\* exception leaves the chain; a truthy result is tagged, anything else moves on.
ChainStage(t, source, next_pc, r) ==
  IF r.raised
  THEN [t EXCEPT !.outcomes = Append(@, "exception"), !.pc = "raised"]
  ELSE IF Truthy(r.val)
  THEN [t EXCEPT !.outcomes = Append(@, "result"),
                 !.result = Merge(r.val, [ai_source |-> source]),
                 !.pc = "done"]
  ELSE [t EXCEPT !.outcomes = Append(@, "none"), !.pc = next_pc]

\* the answers of the captioning models carry a caption, those of CLIP a list of
\* (label, score) matches
ClipMatches ==
  {<<>>,
   <<[label |-> "Monas Jakarta", score |-> 12], [label |-> "Mount Bromo", score |-> 93],
     [label |-> "Lake Toba", score |-> 93]>>}

\* max(result, key=lambda x: x.get("score", 0)): the first match of highest score
best_match(result) ==
  result[CHOOSE i \in 1..Len(result) :
           /\ \A j \in 1..Len(result) : result[j].score <= result[i].score
           /\ \A j \in 1..(i - 1) : result[j].score < result[i].score]

\* _huggingface_vision up to its first request: None without a key, then
\* base64.b64decode(image_data), which raises on a malformed payload, outside any try
VisionHuggingfaceInvoke ==
  /\ task.entry = "vision"
  /\ task.pc = "huggingface"
  /\ task' = IF ~settings.HF_API_KEY
             THEN ChainStage(Invoke(task, "huggingface"), "huggingface", "watsonx",
                             Return(None))
             ELSE IF task.request_data.image_data # "base64"
             THEN ChainStage(Invoke(task, "huggingface"), "huggingface", "watsonx", Raise)
             ELSE Send(Invoke(task, "huggingface"), "huggingface", "blip_post")
  /\ UNCHANGED <<settings, now, served, probe>>

\* the BLIP answer: a caption is processed and returned; anything else (an
\* exception is caught and logged) goes on to CLIP
VisionBlipReply(o) ==
  /\ task.entry = "vision"
  /\ task.pc = "blip_post"
  /\ LET t == Receive(task, "huggingface", o)
         logged == IF o.kind \in {"error", "malformed"}
                   THEN [t EXCEPT !.log = Append(@, "BLIP")] ELSE t
     IN  task' = IF o.kind = "ok"
                 THEN ChainStage(t, "huggingface", "watsonx",
                                 Return(_process_vision_result(o.text)))
                 ELSE Send(logged, "huggingface", "clip_post")
  /\ UNCHANGED <<settings, now, served, probe>>

\* the CLIP answer: the best of a non-empty list of matches, or None
VisionClipReply(o) ==
  /\ task.entry = "vision"
  /\ task.pc = "clip_post"
  /\ LET t == Receive(task, "huggingface", o)
         logged == IF o.kind \in {"error", "malformed"}
                   THEN [t EXCEPT !.log = Append(@, "CLIP")] ELSE t
     IN  task' = IF o.kind = "ok" /\ Len(o.text) > 0
                 THEN ChainStage(t, "huggingface", "watsonx",
                                 Return(_process_clip_result(best_match(o.text))))
                 ELSE ChainStage(logged, "huggingface", "watsonx", Return(None))
  /\ UNCHANGED <<settings, now, served, probe>>

\* _watsonx_vision: None without an API key (the project id is not checked)
VisionWatsonxInvoke ==
  /\ task.entry = "vision"
  /\ task.pc = "watsonx"
  /\ task' = IF ~settings.WATSONX_API_KEY
             THEN ChainStage(Invoke(task, "watsonx"), "watsonx", "replicate", Return(None))
             ELSE Send(Invoke(task, "watsonx"), "watsonx", "watsonx_post")
  /\ UNCHANGED <<settings, now, served, probe>>

\* the whole request is inside try/except Exception: every failure gives None
_watsonx_vision_reply(o) ==
  IF o.kind = "ok" THEN Return(_parse_vision_json(o.text)) ELSE Return(None)

VisionWatsonxReply(o) ==
  /\ task.entry = "vision"
  /\ task.pc = "watsonx_post"
  /\ LET t == Receive(task, "watsonx", o)
         logged == IF o.kind \in {"error", "malformed"}
                   THEN [t EXCEPT !.log = Append(@, "watsonx")] ELSE t
     IN  task' = ChainStage(logged, "watsonx", "replicate", _watsonx_vision_reply(o))
  /\ UNCHANGED <<settings, now, served, probe>>

\* if settings.USE_REPLICATE and settings.REPLICATE_API_TOKEN: ...; if not result: baseline
VisionReplicateInvoke ==
  /\ task.entry = "vision"
  /\ task.pc = "replicate"
  /\ task' = IF settings.USE_REPLICATE /\ settings.REPLICATE_API_TOKEN
             THEN IF ~settings.REPLICATE_API_TOKEN
                  THEN ChainStage(Invoke(task, "replicate"), "replicate", "baseline",
                                  Return(None))
                  ELSE Send(Invoke(task, "replicate"), "replicate", "replicate_post")
             ELSE [task EXCEPT !.pc = "baseline"]
  /\ UNCHANGED <<settings, now, served, probe>>

VisionReplicatePostReply(o) ==
  /\ task.entry = "vision"
  /\ task.pc = "replicate_post"
  /\ LET t == Receive(task, "replicate", o)
         logged == IF o.kind \in {"error", "malformed"}
                   THEN [t EXCEPT !.log = Append(@, "replicate")] ELSE t
     IN  task' = IF o.kind = "ok"
                 THEN [t EXCEPT !.pc = "replicate_sleep"]
                 ELSE ChainStage(logged, "replicate", "baseline", Return(None))
  /\ UNCHANGED <<settings, now, served, probe>>

\* await asyncio.sleep(3) is over
VisionReplicateFetch ==
  /\ task.entry = "vision"
  /\ task.pc = "replicate_sleep"
  /\ task' = Send(task, "replicate", "replicate_get")
  /\ UNCHANGED <<settings, now, served, probe>>

\* a succeeded job's output goes to _process_vision_result; an output that is a
\* list has no lower(), which the adapter's except turns into None
_replicate_vision_reply(o) ==
  IF o.kind = "ok" THEN Return(_process_vision_result(o.text)) ELSE Return(None)

VisionReplicateGetReply(o) ==
  /\ task.entry = "vision"
  /\ task.pc = "replicate_get"
  /\ LET t == Receive(task, "replicate", o)
         logged == IF o.kind \in {"error", "malformed", "list"}
                   THEN [t EXCEPT !.log = Append(@, "replicate")] ELSE t
     IN  task' = ChainStage(logged, "replicate", "baseline", _replicate_vision_reply(o))
  /\ UNCHANGED <<settings, now, served, probe>>

VisionBaseline ==
  /\ task.entry = "vision"
  /\ task.pc = "baseline"
  /\ task' = [Invoke(task, "baseline") EXCEPT !.outcomes = Append(@, "result"),
                                              !.result = vision_baseline,
                                              !.pc = "done"]
  /\ UNCHANGED <<settings, now, served, probe>>

(***************************************************************************)
(* The demo's get_ai_travel_plan (demo_api.py)                             *)
(***************************************************************************)
\* the demo reads the same credentials from the environment
WATSONX_API_KEY == settings.WATSONX_API_KEY
WATSONX_PROJECT_ID == settings.WATSONX_PROJECT_ID
REPLICATE_API_TOKEN == settings.REPLICATE_API_TOKEN
HUGGINGFACE_API_KEY == settings.HF_API_KEY

DemoTexts == {<<>>, <<"{">>, <<"x">>, <<"{", "demo5", "}">>, <<"{", "demo4", "}">>}

\* the demo's status fetch can also find the job "failed"
PollReplies(texts) == PostReplies(texts) \cup {Reply(k, <<>>) : k \in {"pending", "failed"}}

\* a generated text held in ai_response (None, or a str which may be empty)
Text(t) == [text |-> t]
HasText(a) == a # None /\ a.text # <<>>

\* an adapter of the demo returns: ai_response is set, the chain moves on
DemoReturn(t, a, next_pc) ==
  [t EXCEPT !.ai_response = a,
            !.outcomes = Append(@, IF HasText(a) THEN "result" ELSE "none"),
            !.pc = next_pc]

\* if WATSONX_API_KEY: ai_response = await call_watsonx_ai(prompt)
DemoWatsonxInvoke ==
  /\ task.entry = "demo"
  /\ task.pc = "watsonx"
  /\ task' = IF WATSONX_API_KEY
             THEN IF ~WATSONX_API_KEY \/ ~WATSONX_PROJECT_ID
                  THEN DemoReturn(Invoke(task, "watsonx"), None, "replicate")
                  ELSE Send(Invoke(task, "watsonx"), "watsonx", "watsonx_post")
             ELSE [task EXCEPT !.pc = "replicate"]
  /\ UNCHANGED <<settings, now, served, probe>>

\* call_watsonx_ai after the POST: the generated text on 200, None otherwise
call_watsonx_ai_reply(o) == IF o.kind = "ok" THEN Text(o.text) ELSE None

DemoWatsonxReply(o) ==
  /\ task.entry = "demo"
  /\ task.pc = "watsonx_post"
  /\ task' = DemoReturn(Receive(task, "watsonx", o), call_watsonx_ai_reply(o), "replicate")
  /\ UNCHANGED <<settings, now, served, probe>>

\* if not ai_response and REPLICATE_API_TOKEN: ai_response = await call_replicate_ai(prompt)
DemoReplicateInvoke ==
  /\ task.entry = "demo"
  /\ task.pc = "replicate"
  /\ task' = IF ~HasText(task.ai_response) /\ REPLICATE_API_TOKEN
             THEN Send(Invoke(task, "replicate"), "replicate", "replicate_post")
             ELSE [task EXCEPT !.pc = "huggingface"]
  /\ UNCHANGED <<settings, now, served, probe>>

\* 201: the poll loop starts with its first status fetch
DemoReplicatePostReply(o) ==
  /\ task.entry = "demo"
  /\ task.pc = "replicate_post"
  /\ task' = IF o.kind = "ok"
             THEN [Send(Receive(task, "replicate", o), "replicate", "replicate_get")
                     EXCEPT !.polls = 1]
             ELSE DemoReturn(Receive(task, "replicate", o), None, "huggingface")
  /\ UNCHANGED <<settings, now, served, probe>>

\* a poll loop that treats "failed" like any status other than "succeeded"
DemoReplicatePollReply_PollsOn(o) ==
  /\ task.entry = "demo"
  /\ task.pc = "replicate_get"
  /\ task' = IF o.kind = "ok"
             THEN [DemoReturn(Receive(task, "replicate", o), Text(o.text), "huggingface")
                     EXCEPT !.polls = 0]
             ELSE IF o.kind \in {"pending", "failed"}
             THEN [Receive(task, "replicate", o) EXCEPT !.pc = "replicate_sleep"]
             ELSE [DemoReturn(Receive(task, "replicate", o), None, "huggingface")
                     EXCEPT !.polls = 0]
  /\ UNCHANGED <<settings, now, served, probe>>

\* one pass of "for _ in range(30)": succeeded returns the joined output, failed
\* breaks, any other status sleeps one second; an exception ends the call with None
DemoReplicatePollReply(o) ==
  /\ task.entry = "demo"
  /\ task.pc = "replicate_get"
  /\ task' = IF o.kind = "ok"
             THEN [DemoReturn(Receive(task, "replicate", o), Text(o.text), "huggingface")
                     EXCEPT !.polls = 0]
             ELSE IF o.kind = "pending"
             THEN [Receive(task, "replicate", o) EXCEPT !.pc = "replicate_sleep"]
             ELSE [DemoReturn(Receive(task, "replicate", o), None, "huggingface")
                     EXCEPT !.polls = 0]
  /\ UNCHANGED <<settings, now, served, probe>>

\* await asyncio.sleep(1) is over: the next pass, or the end of the loop
DemoReplicateWake ==
  /\ task.entry = "demo"
  /\ task.pc = "replicate_sleep"
  /\ task' = IF task.polls < DemoMaxPolls
             THEN [Send(task, "replicate", "replicate_get") EXCEPT !.polls = @ + 1]
             ELSE [DemoReturn(task, None, "huggingface") EXCEPT !.polls = 0]
  /\ UNCHANGED <<settings, now, served, probe>>

\* models = [...] of the demo's call_huggingface_ai
demo_models == <<"openai/gpt-oss-120b", "microsoft/DialoGPT-large",
                 "facebook/blenderbot-400M-distill", "microsoft/DialoGPT-medium">>

\* if not ai_response and HUGGINGFACE_API_KEY: ai_response = await call_huggingface_ai(prompt)
DemoHuggingfaceInvoke ==
  /\ task.entry = "demo"
  /\ task.pc = "huggingface"
  /\ task' = IF ~HasText(task.ai_response) /\ HUGGINGFACE_API_KEY
             THEN [Send(Invoke(task, "huggingface"), "huggingface", "huggingface_post")
                     EXCEPT !.model_idx = 1]
             ELSE [task EXCEPT !.pc = "parse"]
  /\ UNCHANGED <<settings, now, served, probe>>

\* if generated_text and len(generated_text) > 50: return generated_text
DemoHuggingfaceReply(o) ==
  /\ task.entry = "demo"
  /\ task.pc = "huggingface_post"
  /\ LET t == [Receive(task, "huggingface", o) EXCEPT !.model_idx = 0]
     IN  task' = IF o.kind = "ok" /\ o.text # <<>> /\ len(o.text) > DemoMinTextLen
                 THEN DemoReturn(t, Text(o.text), "parse")
                 ELSE IF task.model_idx < Len(demo_models)
                 THEN [Send(Receive(task, "huggingface", o), "huggingface", "huggingface_post")
                         EXCEPT !.model_idx = @ + 1]
                 ELSE DemoReturn(t, None, "parse")
  /\ UNCHANGED <<settings, now, served, probe>>

\* daily_costs of get_enhanced_fallback_plan
daily_costs(budget) ==
  CASE budget = "low" -> 400000
    [] budget = "high" -> 1500000
    [] OTHER -> 800000

\* get_enhanced_fallback_plan: the fields of its result that do not depend on the
\* activity tables (destination, duration, budget, interests, cost, confidence)
get_enhanced_fallback_plan(rd) ==
  [destination |-> rd.destination,
   duration |-> rd.duration,
   budget |-> rd.budget,
   interests |-> rd.interests,
   estimated_cost |-> <<"Rp", daily_costs(rd.budget) * rd.duration>>,
   ai_confidence |-> 97]

\* "Parse AI response" and the fallback at the end of get_ai_travel_plan
DemoFinish ==
  /\ task.entry = "demo"
  /\ task.pc = "parse"
  /\ LET parsed == IF HasText(task.ai_response) THEN demo_parse(task.ai_response.text)
                   ELSE None
     IN  task' = IF parsed # None
                 THEN [task EXCEPT !.result = parsed, !.pc = "done"]
                 ELSE [Invoke(task, "baseline") EXCEPT
                         !.outcomes = Append(@, "result"),
                         !.result = get_enhanced_fallback_plan(task.request_data),
                         !.pc = "done"]
  /\ UNCHANGED <<settings, now, served, probe>>

(***************************************************************************)
(* The routes /plan, /chat and /vision, from the orchestrator's return on   *)
(***************************************************************************)
\* the entry points called from a route of the backend: /plan, /chat, /vision
Routed == {"plan", "chat", "vision"}

\* ai_source: AISource of the response models: a member, or a member's value
IsAISource(v) == v \in {AISource.WATSONX, AISource.HUGGINGFACE, AISource.REPLICATE}

\* the route answers: 200 with the response model, or HTTP 500 from its except;
\* current_user (the optional dependency) is first read here
Respond(t, current_user, records, valid) ==
  [t EXCEPT !.user = current_user,
            !.saved = IF current_user THEN records ELSE <<>>,
            !.status = IF valid THEN 200 ELSE 500,
            !.pc = "responded"]

\* POST /plan after generate_travel_plan returned: the TravelPlan row is committed
\* for a logged-in caller, then TravelPlanResponse is built and validated
create_travel_plan ==
  /\ task.entry = "plan"
  /\ task.pc = "done"
  /\ \E current_user \in BOOLEAN :
       LET plan_data == task.result
       IN  task' = IF ~Truthy(plan_data) THEN Respond(task, current_user, <<>>, FALSE)
                   ELSE Respond(task, current_user, <<"TravelPlan">>,
                                IsAISource(plan_data.ai_source))
  /\ UNCHANGED <<settings, now, served, probe>>

\* POST /chat after generate_response returned: the ChatHistory row is committed
\* for a logged-in caller, then ChatResponse is built and validated
chat_with_ai ==
  /\ task.entry = "chat"
  /\ task.pc = "done"
  /\ \E current_user \in BOOLEAN :
       task' = Respond(task, current_user, <<"ChatHistory">>,
                       /\ {"answer", "ai_source", "confidence"} \subseteq DOMAIN task.result
                       /\ IsAISource(task.result.ai_source))
  /\ UNCHANGED <<settings, now, served, probe>>

\* POST /vision after the chain: VisionResponse is built from result["landmarks"],
\* ["summary"], ["ai_source"], ["confidence"]; any exception becomes HTTP 500
analyze_landmark_image ==
  /\ task.entry = "vision"
  /\ task.pc \in {"done", "raised"}
  /\ task' = Respond(task, FALSE, <<>>,
                     /\ task.pc = "done"
                     /\ {"landmarks", "summary", "ai_source", "confidence"}
                          \subseteq DOMAIN task.result
                     /\ IsAISource(task.result.ai_source))
  /\ UNCHANGED <<settings, now, served, probe>>

\* a cancellation that the try block swallows like any exception, after which the
\* chain goes on to its end
Cancel_Swallowed ==
  /\ task.entry \in Routed
  /\ task.inflight # {}
  /\ task' = [task EXCEPT !.inflight = {}, !.cancelled = TRUE,
                          !.cancelled_at = Len(task.calls), !.pc = "baseline"]
  /\ UNCHANGED <<settings, now, served, probe>>

\* the request is cancelled while an outbound call is awaited: CancelledError is
\* raised at the await; it is not an Exception, so no except clause of the
\* adapter, of the orchestrator or of the route catches it
Cancel ==
  /\ task.entry \in Routed
  /\ task.inflight # {}
  /\ task' = [task EXCEPT !.inflight = {}, !.cancelled = TRUE,
                          !.cancelled_at = Len(task.calls), !.pc = "cancelled"]
  /\ UNCHANGED <<settings, now, served, probe>>

(***************************************************************************)
(* Requests, the clock, and the specification                              *)
(***************************************************************************)
\* the first block of each entry point
FirstPc(e) == IF e \in {"vision", "ai_vision"} THEN "huggingface" ELSE "watsonx"

\* the web layer calls an entry point with a request descriptor
Request(e, rd) ==
  /\ task.pc = "idle"
  /\ served < MaxRequests
  /\ task' = [IdleTask EXCEPT !.entry = e, !.request_data = rd, !.pc = FirstPc(e)]
  /\ UNCHANGED <<settings, now, served, probe>>

\* a service object that outlives the request and remembers what it called
Finish_KeepsHistory ==
  /\ task.pc \in (IF task.entry \in Routed THEN {"responded", "cancelled"}
                  ELSE {"done", "raised"})
  /\ task' = [IdleTask EXCEPT !.calls = task.calls, !.outcomes = task.outcomes]
  /\ served' = served + 1
  /\ UNCHANGED <<settings, now, probe>>

\* the caller takes the answer (or the exception); nothing of the request is kept
Finish ==
  /\ task.pc \in (IF task.entry \in Routed THEN {"responded", "cancelled"}
                  ELSE {"done", "raised"})
  /\ task' = IdleTask
  /\ served' = served + 1
  /\ UNCHANGED <<settings, now, probe>>

\* a day passes
Tick ==
  /\ now < MaxDay
  /\ now' = now + 1
  /\ UNCHANGED <<settings, served, task, probe>>

\* the steps of the coroutine handling a request
Step ==
  \/ WatsonxInvoke
  \/ \E o \in PostReplies(TextsOf(task.entry)) : WatsonxReply(o)
  \/ HuggingfaceInvoke
  \/ \E o \in PostReplies(TextsOf(task.entry)) : HuggingfaceReply(o)
  \/ ReplicateInvoke
  \/ \E o \in PostReplies({<<>>}) : ReplicatePostReply(o)
  \/ ReplicateFetch
  \/ \E o \in GetReplies(TextsOf(task.entry)) : ReplicateGetReply(o)
  \/ Baseline
  \/ chat_response
  \/ analyze_image
  \/ VisionHuggingfaceInvoke
  \/ \E o \in PostReplies(Captions) : VisionBlipReply(o)
  \/ \E o \in PostReplies(ClipMatches) : VisionClipReply(o)
  \/ VisionWatsonxInvoke
  \/ \E o \in PostReplies(VisionTexts) : VisionWatsonxReply(o)
  \/ VisionReplicateInvoke
  \/ \E o \in PostReplies({<<>>}) : VisionReplicatePostReply(o)
  \/ VisionReplicateFetch
  \/ \E o \in GetReplies(Captions) : VisionReplicateGetReply(o)
  \/ VisionBaseline
  \/ DemoWatsonxInvoke
  \/ \E o \in PostReplies(DemoTexts) : DemoWatsonxReply(o)
  \/ DemoReplicateInvoke
  \/ \E o \in PostReplies({<<>>}) : DemoReplicatePostReply(o)
  \/ \E o \in PollReplies(DemoTexts) : DemoReplicatePollReply(o)
  \/ DemoReplicateWake
  \/ DemoHuggingfaceInvoke
  \/ \E o \in PostReplies(DemoTexts) : DemoHuggingfaceReply(o)
  \/ DemoFinish
  \/ create_travel_plan
  \/ chat_with_ai
  \/ analyze_landmark_image

Next ==
  \/ \E e \in Entries : \E rd \in RequestsOf(e) : Request(e, rd)
  \/ Step
  \/ Finish
  \/ Tick
  \/ Cancel

Spec == Init /\ [][Next]_vars

\* The service with the clock at rest and no request cancelled: no step of a
\* request waits for the date, only the baseline reads it, without branching on it.
LiveNext ==
  \/ \E e \in Entries : \E rd \in RequestsOf(e) : Request(e, rd)
  \/ Step
  \/ Finish

\* The event loop runs a started coroutine until it returns, and every outbound
\* call is answered or times out (httpx.Timeout(30.0)).
FairSpec == Init /\ [][LiveNext]_vars /\ WF_vars(Step)

(***************************************************************************)
(* Direct application of the pure functions                                *)
(***************************************************************************)
AllUnset ==
  [WATSONX_API_KEY |-> FALSE, WATSONX_PROJECT_ID |-> FALSE, HF_API_KEY |-> FALSE,
   REPLICATE_API_TOKEN |-> FALSE, USE_REPLICATE |-> FALSE]

\* every request TravelPlanRequest admits (two destinations)
AllPlanRequests ==
  {[destination |-> d, duration_days |-> n, budget_range |-> b] :
     d \in {"Bandung", "Samarinda"}, n \in MinDuration..MaxDuration, b \in BudgetRange}

ProbeInput(fn, input) == [NoProbe EXCEPT !.fn = fn, !.input = input]

ProbeInputs ==
  {ProbeInput("_parse_travel_response", t) : t \in SeqsUpTo(PlanChunks, MaxTextLen)}
    \cup {ProbeInput("_parse_vision_json", t) : t \in SeqsUpTo(VisionChunks, MaxTextLen)}
    \cup {ProbeInput("demo_parse", t) : t \in SeqsUpTo(DemoChunks, MaxTextLen)}
    \cup {ProbeInput("_baseline_travel_plan", rd) : rd \in AllPlanRequests}

ProbeInit ==
  /\ settings = AllUnset
  /\ now \in 0..MaxDay
  /\ served = 0
  /\ task = IdleTask
  /\ probe \in ProbeInputs

Apply(fn, output) ==
  /\ probe.fn = fn
  /\ ~probe.applied
  /\ probe' = [probe EXCEPT !.applied = TRUE, !.output = output]
  /\ UNCHANGED <<settings, now, served, task>>

ApplyParseTravel == Apply("_parse_travel_response", _parse_travel_response(probe.input))

ApplyParseVision == Apply("_parse_vision_json", _parse_vision_json(probe.input))

ApplyDemoParse == Apply("demo_parse", demo_parse(probe.input))

ApplyBaselinePlan ==
  Apply("_baseline_travel_plan", _baseline_travel_plan(probe.input, now))

ProbeNext ==
  \/ ApplyParseTravel
  \/ ApplyParseVision
  \/ ApplyDemoParse
  \/ ApplyBaselinePlan

ProbeSpec == ProbeInit /\ [][ProbeNext]_vars

(***************************************************************************)
(* Properties                                                              *)
(***************************************************************************)
IsPrefix(s, t) == Len(s) <= Len(t) /\ \A i \in 1..Len(s) : s[i] = t[i]

Chained == task.entry \in {"plan", "chat"}

\* C1: in generate_travel_plan and ChatService.generate_response the adapters are
\* invoked in the order watsonx, huggingface, replicate, baseline (replicate only
\* when it is attempted at all), and the adapter that returned a result is the last
\* one invoked for the request.
C1_StageOrder ==
  Chained =>
    /\ \/ IsPrefix(task.calls, <<"watsonx", "huggingface", "replicate", "baseline">>)
       \/ IsPrefix(task.calls, <<"watsonx", "huggingface", "baseline">>)
    /\ Len(task.outcomes) <= Len(task.calls)
    /\ \A i \in 1..Len(task.outcomes) :
         task.outcomes[i] = "result" => i = Len(task.calls)

C1_Witness ==
  /\ task.entry = "plan"
  /\ task.pc = "done"
  /\ task.calls = <<"watsonx", "huggingface">>
  /\ task.outcomes = <<"none", "result">>
  /\ settings.USE_REPLICATE /\ settings.REPLICATE_API_TOKEN

\* the block that follows a provider's try block
NextBlock(provider) ==
  CASE provider = "watsonx" -> "huggingface"
    [] provider = "huggingface" -> "replicate"
    [] provider = "replicate" -> "baseline"

\* C2: an exception raised in a provider stage of generate_travel_plan or
\* ChatService.generate_response never reaches the caller: the orchestrator stands
\* at the next block right after it, and a finished request has invoked the stage
\* after every stage that raised (huggingface after a watsonx exception).
C2_ExceptionContained ==
  Chained =>
    /\ task.pc # "raised"
    /\ \A i \in 1..Len(task.outcomes) :
         task.outcomes[i] = "exception" =>
           /\ task.calls[i] \in {"watsonx", "huggingface", "replicate"}
           /\ i = Len(task.calls) => task.pc = NextBlock(task.calls[i])
           /\ task.pc = "done" => Len(task.calls) > i
           /\ (task.calls[i] = "watsonx" /\ Len(task.calls) > i)
                => task.calls[i + 1] = "huggingface"

C2_Witness ==
  /\ task.entry = "chat"
  /\ task.pc = "done"
  /\ task.outcomes = <<"exception", "result">>
  /\ task.calls = <<"watsonx", "huggingface">>

Orchestrated == task.entry \in {"plan", "chat", "ai_chat", "ai_vision"}

\* C3: a started call of generate_travel_plan, analyze_image, chat_response or
\* ChatService.generate_response never ends in an exception and eventually returns
\* an envelope, whatever the stages answer and whatever is configured.
C3_AlwaysReturns ==
  /\ [](Orchestrated => task.pc # "raised")
  /\ (Orchestrated /\ task.pc \notin {"idle", "done", "responded"})
       ~> (Orchestrated /\ task.pc = "done" /\ task.result # None)

C3_Witness ==
  /\ task.entry = "plan"
  /\ task.pc = "done"
  /\ task.outcomes = <<"exception", "none", "exception", "result">>
  /\ task.calls[4] = "baseline"
  /\ task.result # None

\* C4 (as claimed): every envelope an orchestrator entry point returns carries an
\* ai_source and a confidence within [0,1].
C4_TaggedAndBounded ==
  (Orchestrated /\ task.pc = "done") =>
    /\ "ai_source" \in DOMAIN task.result
    /\ "confidence" \in DOMAIN task.result
    /\ task.result.confidence \in 0..100

NoCredentials ==
  ~settings.WATSONX_API_KEY /\ ~settings.HF_API_KEY /\ ~settings.REPLICATE_API_TOKEN

\* C5 (as claimed): with no provider credential configured, every entry point
\* returns an envelope whose ai_source is "baseline".
C5_BaselineWhenUnconfigured ==
  (NoCredentials /\ task.pc = "done"
     /\ task.entry \in {"plan", "chat", "ai_chat", "ai_vision", "vision"}) =>
    /\ "ai_source" \in DOMAIN task.result
    /\ task.result.ai_source = "baseline"

\* C6: the ai_source of the envelope of generate_travel_plan,
\* ChatService.generate_response and the /vision chain is the stage invoked last,
\* the one whose attempt produced the payload, whatever ai_source the payload holds.
C6_SourceIsProducingStage ==
  (task.entry \in {"plan", "chat", "vision"} /\ task.pc = "done") =>
    /\ "ai_source" \in DOMAIN task.result
    /\ Len(task.calls) > 0
    /\ Len(task.outcomes) = Len(task.calls)
    /\ task.outcomes[Len(task.outcomes)] = "result"
    /\ task.result.ai_source = task.calls[Len(task.calls)]

\* a watsonx payload that names another source and is tagged watsonx all the same
C6_Witness ==
  /\ task.entry = "plan"
  /\ task.pc = "done"
  /\ task.calls = <<"watsonx">>
  /\ "confidence" \in DOMAIN task.result
  /\ task.result.confidence = 150
  /\ task.result.ai_source = "watsonx"

\* C7 (as claimed): the baseline of generate_travel_plan and of the demo's
\* get_ai_travel_plan is reached only after every enabled provider was attempted.
C7_BaselineAfterAllProviders ==
  /\ (task.entry = "plan" /\ "baseline" \in {task.calls[i] : i \in 1..Len(task.calls)}) =>
       /\ task.calls[1] = "watsonx"
       /\ task.calls[2] = "huggingface"
       /\ (settings.USE_REPLICATE /\ settings.REPLICATE_API_TOKEN)
            => task.calls[3] = "replicate"
  /\ (task.entry = "demo" /\ "baseline" \in {task.calls[i] : i \in 1..Len(task.calls)}) =>
       LET called == {task.calls[i] : i \in 1..Len(task.calls)}
       IN  /\ WATSONX_API_KEY => "watsonx" \in called
           /\ REPLICATE_API_TOKEN => "replicate" \in called
           /\ HUGGINGFACE_API_KEY => "huggingface" \in called

\* a "{" somewhere before a "}"
HasSpan(text) == \E i, j \in 1..Len(text) : i < j /\ text[i] = "{" /\ text[j] = "}"

RequiredOf(fn) ==
  CASE fn = "_parse_travel_response" -> required_fields
    [] fn = "_parse_vision_json" -> {"landmarks"}
    [] fn = "demo_parse" -> demo_required

Parsers == {"_parse_travel_response", "_parse_vision_json", "demo_parse"}

\* what a parser that let an exception escape would hand back
Raised == [py_raised |-> TRUE]

C9_ContiguousDays ==
  (probe.applied /\ probe.fn = "_baseline_travel_plan") =>
    /\ Len(probe.output.daily_routes) = probe.input.duration_days
    /\ \A i \in 1..Len(probe.output.daily_routes) : probe.output.daily_routes[i].day = i

C9_Witness ==
  /\ probe.applied
  /\ probe.fn = "_baseline_travel_plan"
  /\ probe.input.duration_days = MaxDuration
  /\ Len(probe.output.daily_routes) = MaxDuration
  /\ probe.output.daily_routes[MaxDuration].day = MaxDuration

\* C10: in a baseline plan accommodation, food, transport and activities are 40%,
\* 30%, 20% and 10% of total, total is the sum of the day subtotals, and the four
\* components add up to total.
C10_CostBreakdown ==
  (probe.applied /\ probe.fn = "_baseline_travel_plan") =>
    LET c == probe.output.cost_estimate
    IN  /\ 10 * c.accommodation = 4 * c.total
        /\ 10 * c.food = 3 * c.total
        /\ 10 * c.transport = 2 * c.total
        /\ 10 * c.activities = 1 * c.total
        /\ c.total = SumCosts(probe.output.daily_routes)
        /\ c.accommodation + c.food + c.transport + c.activities = c.total

C10_Witness ==
  /\ probe.applied
  /\ probe.fn = "_baseline_travel_plan"
  /\ probe.input.duration_days = 3
  /\ probe.input.budget_range = "sedang"
  /\ probe.output.cost_estimate.total = 900000
  /\ probe.output.cost_estimate.accommodation = 360000


\* the low ceiling of a baseline confidence: 0.1, the constant of the baseline
\* chat answer and of the baseline vision entry
LowCeiling == 10

\* the request was answered by the baseline stage
BaselineMade ==
  /\ task.pc = "done"
  /\ Len(task.calls) > 0
  /\ task.calls[Len(task.calls)] = "baseline"

\* C11 (as claimed): every result a baseline stage produces (baseline itinerary,
\* baseline chat answer, baseline vision entry, the demo's enhanced fallback plan)
\* has a confidence of at most 0.1.
C11_BaselineCeiling ==
  BaselineMade =>
    IF task.entry = "demo"
    THEN task.result.ai_confidence <= LowCeiling
    ELSE task.result.confidence <= LowCeiling


(***************************************************************************)
(* A synthesizer called twice with the same argument                       *)
(***************************************************************************)
\* the demo requests TravelPlan admits
DemoPlans ==
  {[destination |-> d, duration |-> n, budget |-> b, interests |-> i] :
     d \in {"Jakarta", "Samarinda"}, n \in {1, 3}, b \in {"low", "medium", "high"},
     i \in {<<>>, <<"adventure", "nature">>}}

\* base_costs of the demo's /plan
base_costs(budget) ==
  CASE budget = "low" -> 300000
    [] budget = "medium" -> 800000
    [] budget = "high" -> 1500000
    [] OTHER -> 500000

\* round(random.uniform(0.88, 0.96), 2)
RandomConfidences == 88..96

\* the demo's /plan rule-based planner (create_travel_plan): the fields of its
\* response that do not depend on the activity tables; u is the random draw
demo_create_travel_plan(plan, u) ==
  [destination |-> plan.destination,
   duration |-> plan.duration,
   budget |-> plan.budget,
   interests |-> plan.interests,
   estimated_cost |-> <<"Rp", base_costs(plan.budget) * plan.duration>>,
   ai_confidence |-> u]

RepeatInputs ==
  {ProbeInput("_baseline_travel_plan", rd) : rd \in AllPlanRequests}
    \cup {ProbeInput("get_enhanced_fallback_plan", rd) : rd \in DemoPlans}
    \cup {ProbeInput("create_travel_plan", rd) : rd \in DemoPlans}

RepeatInit ==
  /\ settings = AllUnset
  /\ now = 0
  /\ served = 0
  /\ task = IdleTask
  /\ probe \in RepeatInputs

\* the second call, with the argument of the first
Again(fn, output) ==
  /\ probe.fn = fn
  /\ probe.applied
  /\ ~probe.again
  /\ probe' = [probe EXCEPT !.again = TRUE, !.output2 = output]
  /\ UNCHANGED <<settings, now, served, task>>

ApplyFallbackPlan ==
  Apply("get_enhanced_fallback_plan", get_enhanced_fallback_plan(probe.input))

ApplyDemoPlan ==
  \E u \in RandomConfidences :
    Apply("create_travel_plan", demo_create_travel_plan(probe.input, u))

AgainBaselinePlan ==
  Again("_baseline_travel_plan", _baseline_travel_plan(probe.input, now))

AgainFallbackPlan ==
  Again("get_enhanced_fallback_plan", get_enhanced_fallback_plan(probe.input))

AgainDemoPlan ==
  \E u \in RandomConfidences :
    Again("create_travel_plan", demo_create_travel_plan(probe.input, u))

RepeatNext ==
  \/ ApplyBaselinePlan
  \/ ApplyFallbackPlan
  \/ ApplyDemoPlan
  \/ Tick
  \/ AgainBaselinePlan
  \/ AgainFallbackPlan
  \/ AgainDemoPlan

RepeatSpec == RepeatInit /\ [][RepeatNext]_vars

\* C12 (as claimed): a baseline synthesizer called twice with the same input gives
\* the same output, whatever time passes between the two calls.
C12_Idempotent == probe.again => probe.output2 = probe.output


(***************************************************************************)
(* get_enhanced_fallback_plan, step by step                                *)
(***************************************************************************)
\* the categories of destination_database[destination], in the order the dict
\* lists them, or those of the generic table built for any other city
destination_database(destination) ==
  CASE destination = "Banjarmasin" ->
         <<"culture", "food", "culinary", "nature", "city", "shopping">>
    [] destination = "Bali" -> <<"beach", "culture", "food", "nature">>
    [] destination = "Jakarta" -> <<"culture", "food", "city">>
    [] OTHER -> <<"culture", "food", "culinary", "nature", "adventure", "city", "shopping">>

\* every category lists six activities, all of them distinct strings
PerCategory == 6

\* activities[category][:n] (activities.get(category, [])[:n] when the category
\* is missing); an activity is named by its category and its place in the list
FirstOf(activities, category, n) ==
  IF Contains(activities, category)
  THEN [k \in 1..(IF n < PerCategory THEN n ELSE PerCategory) |-> <<category, k>>]
  ELSE <<>>

\* for interest in interests: if interest in activities: extend(activities[interest][:4])
RECURSIVE ByInterest(_, _)
ByInterest(activities, interests) ==
  IF interests = <<>> THEN <<>>
  ELSE FirstOf(activities, Head(interests), 4) \o ByInterest(activities, Tail(interests))

\* "Remove duplicates while preserving order"
RECURSIVE Unique(_, _)
Unique(seq, seen) ==
  IF seq = <<>> THEN <<>>
  ELSE IF Head(seq) \in seen THEN Unique(Tail(seq), seen)
  ELSE <<Head(seq)>> \o Unique(Tail(seq), seen \cup {Head(seq)})

\* for category, activity_list in activities.items(): for activity in activity_list
RECURSIVE AllActivities(_)
AllActivities(activities) ==
  IF activities = <<>> THEN <<>>
  ELSE FirstOf(activities, Head(activities), PerCategory) \o AllActivities(Tail(activities))

\* selected_activities when the duplicates are left in
SelectActivities_KeepsDuplicates(rd) ==
  LET activities == destination_database(rd.destination)
      interests == {rd.interests[i] : i \in 1..Len(rd.interests)}
      preferred == ByInterest(activities, rd.interests)
      foodie == IF "food" \in interests \/ "culinary" \in interests
                THEN FirstOf(activities, "food", 2) \o FirstOf(activities, "culinary", 2)
                ELSE <<>>
      sights == IF "culture" \in interests \/ "city" \in interests
                THEN FirstOf(activities, "culture", 2) \o FirstOf(activities, "city", 2)
                ELSE <<>>
      chosen == preferred \o foodie \o sights
  IN  IF chosen = <<>>
      THEN FirstOf(activities, "culture", 3) \o FirstOf(activities, "food", 3)
             \o FirstOf(activities, "city", 2)
      ELSE chosen

\* selected_activities as the function reaches its while loop
SelectActivities(rd) ==
  LET activities == destination_database(rd.destination)
      interests == {rd.interests[i] : i \in 1..Len(rd.interests)}
      preferred == ByInterest(activities, rd.interests)
      foodie == IF "food" \in interests \/ "culinary" \in interests
                THEN FirstOf(activities, "food", 2) \o FirstOf(activities, "culinary", 2)
                ELSE <<>>
      sights == IF "culture" \in interests \/ "city" \in interests
                THEN FirstOf(activities, "culture", 2) \o FirstOf(activities, "city", 2)
                ELSE <<>>
      chosen == preferred \o foodie \o sights
      mixed == IF chosen = <<>>
               THEN FirstOf(activities, "culture", 3) \o FirstOf(activities, "food", 3)
                      \o FirstOf(activities, "city", 2)
               ELSE chosen
  IN  Unique(mixed, {})

min_activities_needed(rd) == rd.duration * 2

\* the activities no pass of the while loop has appended yet
Unseen(p) ==
  Unique(AllActivities(destination_database(p.input.destination)),
         {p.selected_activities[i] : i \in 1..Len(p.selected_activities)})

\* every request the demo's planner can be given, within the durations of the claim
FallbackRequests ==
  {[destination |-> d, duration |-> n, budget |-> b, interests |-> i] :
     d \in {"Banjarmasin", "Bali", "Jakarta", "Samarinda"},
     n \in MinDuration..MaxDuration, b \in {"low", "medium", "high"},
     i \in {<<>>, <<"food">>, <<"adventure", "nature">>, <<"beach", "culture">>}}

FallbackInit ==
  /\ settings = AllUnset
  /\ now = 0
  /\ served = 0
  /\ task = IdleTask
  /\ probe \in {ProbeInput("get_enhanced_fallback_plan", rd) : rd \in FallbackRequests}

\* the function runs up to its while loop
FallbackSelect ==
  /\ probe.fn = "get_enhanced_fallback_plan"
  /\ probe.pc = "call"
  /\ probe' = [probe EXCEPT !.pc = "while",
                            !.selected_activities = SelectActivities(probe.input)]
  /\ UNCHANGED <<settings, now, served, task>>

\* one pass of "while len(selected_activities) < min_activities_needed": every
\* activity not seen is appended until there are enough
FallbackPass ==
  /\ probe.fn = "get_enhanced_fallback_plan"
  /\ probe.pc = "while"
  /\ Len(probe.selected_activities) < min_activities_needed(probe.input)
  /\ probe' = [probe EXCEPT !.selected_activities =
                 @ \o Take(Unseen(probe), min_activities_needed(probe.input) - Len(@))]
  /\ UNCHANGED <<settings, now, served, task>>

\* "Distribute activities intelligently across days": the entry of each day in
\* range(duration) as the pair <<morning_activity, afternoon_activity>> that the
\* code formats into "Pagi: ... | Sore: ..."
itinerary(selected_activities, duration) ==
  [k \in 1..duration |->
     LET morning_idx == (k - 1) * 2
         afternoon_idx == (k - 1) * 2 + 1
         morning_activity ==
           IF morning_idx < Len(selected_activities)
           THEN selected_activities[morning_idx + 1]
           ELSE <<"Eksplorasi bebas (pagi)", 0>>
         afternoon_activity ==
           IF afternoon_idx < Len(selected_activities)
           THEN selected_activities[afternoon_idx + 1]
           ELSE <<"Eksplorasi bebas (sore)", 0>>
     IN  IF morning_activity = afternoon_activity
            /\ Len(selected_activities) > afternoon_idx + 1
         THEN <<morning_activity, selected_activities[afternoon_idx + 2]>>
         ELSE <<morning_activity, afternoon_activity>>]

\* the loop is left: the days are filled and the plan is returned
FallbackReturn ==
  /\ probe.fn = "get_enhanced_fallback_plan"
  /\ probe.pc = "while"
  /\ Len(probe.selected_activities) >= min_activities_needed(probe.input)
  /\ probe' = [probe EXCEPT !.pc = "returned", !.applied = TRUE,
                            !.output =
                              get_enhanced_fallback_plan(probe.input)
                                @@ [itinerary |-> itinerary(probe.selected_activities,
                                                            probe.input.duration)]]
  /\ UNCHANGED <<settings, now, served, task>>

FallbackNext ==
  \/ FallbackSelect
  \/ FallbackPass
  \/ FallbackReturn

FallbackSpec == FallbackInit /\ [][FallbackNext]_vars

\* the while loop stands at its head short of activities with none left to add:
\* every further pass leaves selected_activities as it is
FallbackStuck ==
  /\ probe.fn = "get_enhanced_fallback_plan"
  /\ probe.pc = "while"
  /\ Len(probe.selected_activities) < min_activities_needed(probe.input)
  /\ Unseen(probe) = <<>>

\* C13 (as claimed): get_enhanced_fallback_plan terminates and returns a plan for
\* every destination, every duration in 1..14, every budget tier and every
\* interest list: its while loop is never stuck.
C13_FallbackTerminates == ~FallbackStuck


\* a route answered a request whose envelope the baseline stage produced
BaselineAnswered ==
  /\ task.entry \in Routed
  /\ task.pc = "responded"
  /\ task.calls # <<>>
  /\ task.calls[Len(task.calls)] = "baseline"

\* C14 (as claimed): "baseline" is a value of AISource, and a baseline envelope
\* leaves /plan, /chat and /vision as a successful response whose source is
\* "baseline", never as an error.
C14_BaselineServed ==
  BaselineAnswered =>
    /\ IsAISource(task.result.ai_source)
    /\ task.result.ai_source = "baseline"
    /\ task.status = 200


\* C15 (as claimed): no adapter lets an exception out: whatever the transport,
\* the status or the body (a malformed base64 image and an empty "results" list
\* included), the adapter hands None or a result to its caller.
C15_AdaptersContain ==
  task.entry \in Routed =>
    /\ \A i \in 1..Len(task.outcomes) : task.outcomes[i] # "exception"
    /\ task.pc # "raised"


\* C16 (as claimed): a call to Replicate is issued only when the feature flag
\* USE_REPLICATE is on and a token is configured, in the backend's plan, chat and
\* vision chains and in the demo's get_ai_travel_plan alike.
C16_ReplicateGated ==
  (\E i \in 1..Len(task.http) : task.http[i] = "replicate") =>
    /\ settings.USE_REPLICATE
    /\ settings.REPLICATE_API_TOKEN


\* the warning names the provider; the per-model one reads "HF model <model> failed: ..."
Names(warning, provider) ==
  warning = provider \/ (warning = "hf model" /\ provider = "huggingface")

\* C17 (as claimed): when a provider's call fails transiently (the call raises on
\* a timeout or a connection error, or the answer has a non-2xx status) the
\* orchestrator has logged a warning naming that provider by the time it moves
\* on, and the request does not end in an exception.
C17_FailureLogged ==
  (task.entry \in {"plan", "chat"} /\ task.response \in {"error", "status"}) =>
    /\ task.log # <<>>
    /\ Names(task.log[Len(task.log)], task.http[Len(task.http)])
    /\ task.pc # "raised"


\* C18: within one request at most one outbound provider call is in flight at any
\* time; while a stage's call is in flight, every earlier stage has completed
\* without a result (None or an exception), and the call in flight is the one
\* issued last.
C18_OneInFlight ==
  /\ Cardinality(task.inflight) <= 1
  /\ task.inflight # {} =>
       /\ task.http # <<>>
       /\ task.inflight = {task.http[Len(task.http)]}
       /\ task.calls # <<>>
       /\ task.calls[Len(task.calls)] = task.http[Len(task.http)]
       /\ Len(task.outcomes) = Len(task.calls) - 1
       /\ \A i \in 1..Len(task.outcomes) : task.outcomes[i] \in {"none", "exception"}

C18_Witness ==
  /\ task.entry = "plan"
  /\ task.inflight = {"replicate"}
  /\ task.calls = <<"watsonx", "huggingface", "replicate">>
  /\ task.outcomes = <<"exception", "none">>


\* C19: when the request is cancelled while a stage's adapter call is in flight,
\* no later stage and no baseline is invoked, the route does not answer, and no
\* TravelPlan or ChatHistory record is written for the request.
C19_CancelAbandons ==
  task.cancelled =>
    /\ task.pc = "cancelled"
    /\ Len(task.calls) = task.cancelled_at
    /\ \A i \in 1..Len(task.calls) : task.calls[i] # "baseline"
    /\ task.inflight = {}
    /\ task.saved = <<>>
    /\ task.status = 0

C19_Witness ==
  /\ task.cancelled
  /\ task.entry = "plan"
  /\ task.calls = <<"watsonx", "huggingface">>
  /\ task.http = <<"watsonx", "huggingface", "huggingface">>


(***************************************************************************)
(* The demo's /chat-plan: budget tier of a free-text message                *)
(*   (demo_api.py create_travel_plan_from_chat, same code in demo_api_fixed) *)
(***************************************************************************)
\* A message is a sequence of tokens: one token per character for digits, ".",
\* "," and the blank, one token per word otherwise (no word holds a digit).
Digits == {"0", "1", "2", "3", "4", "5", "6", "7", "8", "9"}

DigitValue(c) ==
  CASE c = "0" -> 0 [] c = "1" -> 1 [] c = "2" -> 2 [] c = "3" -> 3 [] c = "4" -> 4
    [] c = "5" -> 5 [] c = "6" -> 6 [] c = "7" -> 7 [] c = "8" -> 8 [] c = "9" -> 9

\* words in which the pattern's literal "juta" matches at the word's start
JutaWords == {"juta"}

MaxMessageLen == 5

MessageTokens == {"1", "4", "5", ".", ",", " ", "juta", "murah", "mewah"}

ChatPlanMessages == SeqsUpTo(MessageTokens, MaxMessageLen)

\* the number of consecutive tokens of message from position i on that are in set
RECURSIVE Run(_, _, _)
Run(message, i, set) ==
  IF i > Len(message) \/ message[i] \notin set THEN 0
  ELSE 1 + Run(message, i + 1, set)

\* (\d+(?:\.\d+)?)\s*juta anchored at position i: the group as its integer and
\* fraction digits, or None.  \d+ and the optional group are greedy; giving a
\* digit back never helps, since what follows would have to match a digit.
MatchAt(message, i) ==
  LET n == Run(message, i, Digits)
      j == i + n
      f == IF j <= Len(message) /\ message[j] = "." THEN Run(message, j + 1, Digits)
           ELSE 0
      k == IF f > 0 THEN j + 1 + f ELSE j
      q == k + Run(message, k, {" "})
  IN  IF n > 0 /\ q <= Len(message) /\ message[q] \in JutaWords
      THEN [int |-> SubSeq(message, i, j - 1),
            frac |-> IF f > 0 THEN SubSeq(message, j + 1, k - 1) ELSE <<>>]
      ELSE None

\* regex_module.search: the match at the leftmost position that has one
RECURSIVE search(_, _)
search(message, i) ==
  IF i > Len(message) THEN None
  ELSE IF MatchAt(message, i) # None THEN MatchAt(message, i)
  ELSE search(message, i + 1)

\* the digits read as a decimal integer
RECURSIVE Decimal(_)
Decimal(ds) ==
  IF ds = <<>> THEN 0
  ELSE 10 * Decimal(SubSeq(ds, 1, Len(ds) - 1)) + DigitValue(ds[Len(ds)])

RECURSIVE Pow10(_)
Pow10(n) == IF n = 0 THEN 1 ELSE 10 * Pow10(n - 1)

\* float(budget_match.group(1)) as the fraction num / den
float(group) ==
  [num |-> Decimal(group.int) * Pow10(Len(group.frac)) + Decimal(group.frac),
   den |-> Pow10(Len(group.frac))]

\* any(word in message for word in words)
AnyWord(message, words) == \E i \in 1..Len(message) : message[i] \in words

\* a budget detection whose first threshold is exclusive
detected_budget_StrictLow(message) ==
  LET budget_match == search(message, 1)
  IN  IF budget_match # None
      THEN LET amount == float(budget_match)
           IN  IF 2 * amount.num < 3 * amount.den THEN "low"
               ELSE IF amount.num <= 4 * amount.den THEN "medium"
               ELSE "high"
      ELSE IF AnyWord(message, {"hemat", "murah", "budget rendah", "terbatas"}) THEN "low"
      ELSE IF AnyWord(message, {"premium", "mewah", "mahal", "luxury", "eksklusif"})
      THEN "high"
      ELSE "medium"

\* detected_budget of create_travel_plan_from_chat: amount <= 1.5 low, <= 4 medium,
\* else high; keywords only in the else branch of the match; default "medium"
detected_budget(message) ==
  LET budget_match == search(message, 1)
  IN  IF budget_match # None
      THEN LET amount == float(budget_match)
           IN  IF 2 * amount.num <= 3 * amount.den THEN "low"
               ELSE IF amount.num <= 4 * amount.den THEN "medium"
               ELSE "high"
      ELSE IF AnyWord(message, {"hemat", "murah", "budget rendah", "terbatas"}) THEN "low"
      ELSE IF AnyWord(message, {"premium", "mewah", "mahal", "luxury", "eksklusif"})
      THEN "high"
      ELSE "medium"

ChatPlanInit ==
  /\ settings = AllUnset
  /\ now = 0
  /\ served = 0
  /\ task = IdleTask
  /\ probe \in {ProbeInput("detected_budget", m) : m \in ChatPlanMessages}

ApplyDetectedBudget == Apply("detected_budget", detected_budget(probe.input))

ChatPlanSpec == ChatPlanInit /\ [][ApplyDetectedBudget]_vars

\* tokens i..k of m write a number: digits, or digits "." digits
IsNumber(m, i, k) ==
  /\ i <= k
  /\ \/ \A p \in i..k : m[p] \in Digits
     \/ \E d \in (i + 1)..(k - 1) :
          /\ m[d] = "."
          /\ \A p \in (i..k) \ {d} : m[p] \in Digits

\* the number ending at k is followed, after blanks only, by "juta"
BeforeJuta(m, k) ==
  \E q \in (k + 1)..Len(m) :
    /\ m[q] \in JutaWords
    /\ \A p \in (k + 1)..(q - 1) : m[p] = " "

\* the places <<i, k>> where m reads "<amount> juta"
Amounts(m) ==
  {ik \in (1..Len(m)) \X (1..Len(m)) : IsNumber(m, ik[1], ik[2]) /\ BeforeJuta(m, ik[2])}

\* how many digits follow the point in the number written at tokens i..k
AfterPoint(m, i, k) ==
  LET dot == {d \in i..k : m[d] = "."}
  IN  IF dot = {} THEN 0 ELSE k - (CHOOSE d \in dot : TRUE)

\* the number written at tokens i..k in units of 10^-AfterPoint: its digits read
\* without the point
Scaled(m, i, k) ==
  Decimal(SelectSeq(SubSeq(m, i, k), LAMBDA c : c \in Digits))

\* the tier the thresholds 1.5 and 4 give the amount written at tokens i..k
TierOf(m, i, k) ==
  IF 10 * Scaled(m, i, k) <= 15 * Pow10(AfterPoint(m, i, k)) THEN "low"
  ELSE IF Scaled(m, i, k) <= 4 * Pow10(AfterPoint(m, i, k)) THEN "medium"
  ELSE "high"

\* C20: for a message that reads "<amount> juta" the tier is low for an amount of
\* at most 1.5, medium above 1.5 up to 4, high above 4 (the first amount written
\* counts, keywords or not); keywords decide only when no amount is written, and
\* with neither an amount nor a keyword the tier is medium.
C20_BudgetTier ==
  (probe.fn = "detected_budget" /\ probe.applied) =>
    LET m == probe.input
        first == CHOOSE ik \in Amounts(m) : \A other \in Amounts(m) : ik[1] <= other[1]
    IN  IF Amounts(m) # {}
        THEN probe.output = TierOf(m, first[1], first[2])
        ELSE IF AnyWord(m, {"murah"}) \/ AnyWord(m, {"mewah"})
        THEN \/ AnyWord(m, {"murah"}) /\ probe.output = "low"
             \/ AnyWord(m, {"mewah"}) /\ probe.output = "high"
        ELSE probe.output = "medium"

\* "mewah 1.5 juta": the amount at the threshold decides, not the keyword
C20_Witness ==
  /\ probe.applied
  /\ probe.input = <<"mewah", "1", ".", "5", "juta">>
  /\ probe.output = "low"


\* the credential an adapter requires is configured
Configured(provider) ==
  CASE provider = "watsonx" -> settings.WATSONX_API_KEY /\ settings.WATSONX_PROJECT_ID
    [] provider = "huggingface" -> settings.HF_API_KEY
    [] provider = "replicate" -> settings.REPLICATE_API_TOKEN
    [] OTHER -> TRUE

\* C21 (as claimed): an adapter invoked without its credential (watsonx: API key or
\* project id; Hugging Face: API key; Replicate: token) issues no HTTP request and hands
\* None to the orchestrator, which records an empty result for the stage and goes
\* on to the next one.
C21_UnconfiguredSkips ==
  task.entry \in Routed \cup {"demo"} =>
    \A i \in 1..Len(task.calls) :
      ~Configured(task.calls[i]) =>
        /\ \A h \in 1..Len(task.http) : task.http[h] # task.calls[i]
        /\ Len(task.outcomes) >= i
        /\ task.outcomes[i] = "none"
        /\ task.pc # "raised"


(***************************************************************************)
(* The Hugging Face candidates, answered from a script                     *)
(***************************************************************************)
\* the adapters that loop over candidate models, and each one's list
Candidates(e) == IF e = "demo" THEN demo_models ELSE models

\* one answer per candidate, fixed when the request starts
Scripts(e) ==
  [1..Len(Candidates(e)) -> PostReplies(IF e = "demo" THEN DemoTexts ELSE TextsOf(e))]

\* the request as it enters the Hugging Face stage when only HF_API_KEY is set:
\* the watsonx adapter returned None (backend), the demo's gates skipped its
\* watsonx and Replicate stages
AtHuggingface(e, rd) ==
  LET t == [IdleTask EXCEPT !.entry = e, !.request_data = rd, !.pc = FirstPc(e)]
  IN  IF e = "demo" THEN [t EXCEPT !.pc = "huggingface"]
      ELSE TryStage(Invoke(t, "watsonx"), AISource.WATSONX, "huggingface", Return(None))

CandidateInit ==
  /\ settings = [AllUnset EXCEPT !.HF_API_KEY = TRUE]
  /\ now = 0
  /\ served = 0
  /\ \E e \in {"plan", "chat", "demo"} : \E rd \in RequestsOf(e) : \E script \in Scripts(e) :
       /\ task = AtHuggingface(e, rd)
       /\ probe = ProbeInput("candidates", script)

\* the answer of the candidate whose request is outstanding
Scripted ==
  IF task.model_idx \in 1..Len(probe.input) THEN {probe.input[task.model_idx]} ELSE {}

CandidateNext ==
  \/ HuggingfaceInvoke
  \/ \E o \in Scripted : HuggingfaceReply(o)
  \/ DemoHuggingfaceInvoke
  \/ \E o \in Scripted : DemoHuggingfaceReply(o)

CandidateSpec == CandidateInit /\ [][CandidateNext]_vars

\* requests sent to Hugging Face so far
HfPosts == Cardinality({i \in 1..Len(task.http) : task.http[i] = "huggingface"})

\* the answer decodes, through the entry's parser, to a usable object
Parses(e, o) ==
  /\ o.kind = "ok"
  /\ IF e = "demo" THEN demo_parse(o.text) # None ELSE Truthy(Parse(e, o.text))

\* the answer is a text of more than 50 characters
LongText(e, o) == o.kind = "ok" /\ len(o.text) > DemoMinTextLen

\* the first candidate of the script whose answer is accepted, 0 when none is
FirstAccepted(script, e, Accepted(_, _)) ==
  IF \E k \in 1..Len(script) : Accepted(e, script[k])
  THEN CHOOSE k \in 1..Len(script) :
         /\ Accepted(e, script[k])
         /\ \A j \in 1..(k - 1) : ~Accepted(e, script[j])
  ELSE 0

\* the candidates are called in the listed order, each at most once, up to the
\* first accepted one, whose output is returned; None after all when none is
CandidateOrder(Accepted(_, _)) ==
  LET e == task.entry
      script == probe.input
      first == FirstAccepted(script, e, Accepted)
  IN  /\ task.pc = "huggingface_post" =>
           /\ task.model_idx \in 1..Len(script)
           /\ HfPosts = task.model_idx
           /\ first = 0 \/ task.model_idx <= first
      /\ task.pc \notin {"huggingface", "huggingface_post"} =>
           /\ HfPosts = (IF first = 0 THEN Len(script) ELSE first)
           /\ task.outcomes[Len(task.outcomes)] = (IF first = 0 THEN "none" ELSE "result")
           /\ IF e = "demo"
              THEN task.ai_response = (IF first = 0 THEN None ELSE Text(script[first].text))
              ELSE task.result =
                     (IF first = 0 THEN None
                      ELSE Merge(Parse(e, script[first].text),
                                 [ai_source |-> AISource.HUGGINGFACE]))

ReplicateRequests(t) == Cardinality({i \in 1..Len(t.http) : t.http[i] = "replicate"})
Fetches(t) == IF ReplicateRequests(t) = 0 THEN 0 ELSE ReplicateRequests(t) - 1

\* the Replicate adapter has just returned
ReplicateReturned ==
  /\ task.calls # <<>>
  /\ task.calls[Len(task.calls)] = "replicate"
  /\ Len(task.outcomes) = Len(task.calls)

FetchBound ==
  /\ Fetches(task) <= (IF task.entry = "demo" THEN DemoMaxPolls ELSE 1)
  /\ (task.entry \in Routed /\ task.pc = "replicate_get") => Fetches(task) = 1
  /\ (task.entry = "demo" /\ task.pc = "replicate_get") => Fetches(task) = task.polls
  /\ (ReplicateReturned /\ task.response \in {"pending", "failed"}) =>
       /\ task.outcomes[Len(task.outcomes)] = "none"
       /\ task.entry = "demo" => task.ai_response = None
       /\ task.entry \in Routed => task.result = None

\* a status fetch is sent only after the answer that created the prediction or
\* after a status that is neither "succeeded" nor "failed"; the answer is the one
\* the step receives, or the last one received when the step ends a sleep
FetchStep ==
  LET answer == IF task.inflight # {} THEN task'.response ELSE task.response
  IN  Fetches(task') > Fetches(task) =>
        /\ answer \in {"ok", "pending"}
        /\ answer = "ok" => Fetches(task) = 0

\* C23: a Replicate attempt makes at most 30 status fetches in the demo's poll
\* loop and one in the backend adapters, makes no fetch after a "succeeded" or
\* "failed" status, and returns None when the job failed or has not succeeded by
\* the last fetch.
C23_BoundedPolling ==
  /\ [](task.entry \in Routed \cup {"demo"} => FetchBound)
  /\ [][task.entry \in Routed \cup {"demo"} => FetchStep]_vars

\* the demo's loop ran to its cap and the attempt returned None
C23_Witness ==
  /\ task.entry = "demo"
  /\ Fetches(task) = DemoMaxPolls
  /\ ReplicateReturned
  /\ task.response = "pending"
  /\ task.ai_response = None


\* the stages of generate_travel_plan and generate_response under a configuration
StageList ==
  IF settings.USE_REPLICATE /\ settings.REPLICATE_API_TOKEN
  THEN <<"watsonx", "huggingface", "replicate", "baseline">>
  ELSE <<"watsonx", "huggingface", "baseline">>

\* C24: within one request each stage's adapter is invoked at most once, and the
\* stages a request goes through, in their order, depend on the configuration
\* only: a request starts with nothing kept from the requests before it, whatever
\* their outcomes were.
C24_NoRetryNoHistory ==
  /\ [](Chained =>
          /\ IsPrefix(task.calls, StageList)
          /\ \A i, j \in 1..Len(task.calls) : task.calls[i] = task.calls[j] => i = j
          /\ task.pc = "done" =>
               \/ task.outcomes[Len(task.outcomes)] = "result"
               \/ task.calls = StageList)
  /\ [][/\ served' > served => task' = IdleTask
        /\ (task.pc = "idle" /\ task'.pc # "idle") =>
             /\ task'.calls = <<>>
             /\ task'.outcomes = <<>>
             /\ task'.http = <<>>
             /\ task'.pc = FirstPc(task'.entry)]_vars

\* a second request goes through all four stages
C24_Witness ==
  /\ served = 1
  /\ task.entry = "chat"
  /\ task.pc = "done"
  /\ task.calls = <<"watsonx", "huggingface", "replicate", "baseline">>
  /\ task.outcomes = <<"exception", "none", "none", "result">>


\* positions of a chunk in a text
Positions(text, c) == {i \in 1..Len(text) : text[i] = c}

\* the text from its first "{" through its last "}" decodes to an object that
\* holds every required field
SpanDecodes(text) ==
  /\ Positions(text, "{") # {}
  /\ Positions(text, "}") # {}
  /\ LET a == CHOOSE i \in Positions(text, "{") : \A k \in Positions(text, "{") : i <= k
         b == CHOOSE j \in Positions(text, "}") : \A k \in Positions(text, "}") : j >= k
     IN  /\ a < b
         /\ json_loads(SubSeq(text, a, b)).ok
         /\ required_fields \subseteq DOMAIN json_loads(SubSeq(text, a, b)).obj

\* some shorter part of the text decodes to an object with every required field
NarrowerDecodes(text) ==
  \E a, b \in 1..Len(text) :
    /\ a < b
    /\ json_loads(SubSeq(text, a, b)).ok
    /\ required_fields \subseteq DOMAIN json_loads(SubSeq(text, a, b)).obj

\* C25: _parse_travel_response returns an object exactly when the text from its
\* first "{" through its last "}" decodes to an object holding every required
\* field; it extracts once, so a text whose span does not decode gives None even
\* when a shorter part of it would decode to a valid object.
C25_SingleExtraction ==
  (probe.applied /\ probe.fn = "_parse_travel_response") =>
    /\ (probe.output # None) <=> SpanDecodes(probe.input)
    /\ probe.output # None => required_fields \subseteq DOMAIN probe.output

\* a valid object followed by a stray "}": the span does not decode, its first
\* three chunks would
C25_Witness ==
  /\ probe.applied
  /\ probe.fn = "_parse_travel_response"
  /\ probe.input = <<"{", "plan5", "}", "}">>
  /\ NarrowerDecodes(probe.input)
  /\ ~SpanDecodes(probe.input)
  /\ probe.output = None


\* C26 (as claimed): in every DayPlan of an itinerary that generate_travel_plan
\* returns, the baseline's included, the day's estimated_cost is the sum of the
\* estimated_cost of its activities.
C26_DaySubtotal ==
  (task.entry = "plan" /\ task.pc = "done") =>
    \A d \in 1..Len(task.result.daily_routes) :
      task.result.daily_routes[d].estimated_cost =
        SumCosts(task.result.daily_routes[d].activities)


\* C27 (as claimed): every itinerary that generate_travel_plan returns, one parsed
\* from a provider's answer included, has as many DayPlans as the request's
\* duration_days, numbered 1..duration_days in order.
C27_DaysMatchRequest ==
  (task.entry = "plan" /\ task.pc = "done") =>
    /\ Len(task.result.daily_routes) = task.request_data.duration_days
    /\ \A d \in 1..Len(task.result.daily_routes) : task.result.daily_routes[d].day = d


\* the per-day cost of the baseline by budget tier
Band == [murah |-> 150000, sedang |-> 300000, mahal |-> 750000]

\* C28: each day of the baseline itinerary holds exactly one activity, located at
\* the requested destination, and the day's cost is one of three fixed amounts
\* chosen by the budget tier alone: the same on every day of the plan, and
\* strictly increasing from the low to the medium to the high tier.
C28_BaselineDays ==
  (probe.applied /\ probe.fn = "_baseline_travel_plan") =>
    /\ Band.murah < Band.sedang
    /\ Band.sedang < Band.mahal
    /\ \A d \in 1..Len(probe.output.daily_routes) :
         LET day == probe.output.daily_routes[d]
         IN  /\ Len(day.activities) = 1
             /\ day.activities[1].location = probe.input.destination
             /\ day.estimated_cost = Band[probe.input.budget_range]

C28_Witness ==
  /\ probe.applied
  /\ probe.fn = "_baseline_travel_plan"
  /\ probe.input.budget_range = "mahal"
  /\ Len(probe.output.daily_routes) = MaxDuration
  /\ probe.output.daily_routes[MaxDuration].estimated_cost = Band.mahal
  /\ probe.output.daily_routes[MaxDuration].activities[1].location = probe.input.destination


\* the activities of an itinerary, morning before afternoon, day after day
RECURSIVE Slots(_)
Slots(days) ==
  IF days = <<>> THEN <<>> ELSE Head(days) \o Slots(Tail(days))

\* C29: the itinerary get_enhanced_fallback_plan returns has one entry for each
\* requested day, the two activities of an entry differ, and no activity stands
\* in the itinerary twice.
C29_ItineraryDistinct ==
  (probe.fn = "get_enhanced_fallback_plan" /\ probe.pc = "returned") =>
    LET days == probe.output.itinerary
        slots == Slots(days)
    IN  /\ Len(days) = probe.input.duration
        /\ \A k \in 1..Len(days) : Len(days[k]) = 2 /\ days[k][1] # days[k][2]
        /\ \A i, j \in 1..Len(slots) : i # j => slots[i] # slots[j]

\* a three-day plan for the interest "food", whose first two food activities are
\* selected twice, once as an interest and once as the complement: the four food
\* activities fill two days and the while loop supplies the third
C29_Witness ==
  /\ probe.fn = "get_enhanced_fallback_plan"
  /\ probe.pc = "returned"
  /\ probe.input.interests = <<"food">>
  /\ probe.input.destination = "Jakarta"
  /\ probe.input.duration = 3
  /\ Len(probe.output.itinerary) = 3
  /\ probe.output.itinerary[2] = <<<<"food", 3>>, <<"food", 4>>>>
  /\ probe.output.itinerary[3] = <<<<"culture", 1>>, <<"culture", 2>>>>



\* C30 (as claimed): every result the vision chain hands to its route, whether
\* built from a BLIP caption, from a CLIP match, from the JSON of a watsonx answer
\* or by the fallback, has at least one landmark and an overall confidence equal
\* to the highest confidence among its landmarks.
C30_ConfidenceIsMax ==
  (task.entry = "vision" /\ task.pc = "done") =>
    /\ "landmarks" \in DOMAIN task.result
    /\ task.result.landmarks # <<>>
    /\ "confidence" \in DOMAIN task.result
    /\ task.result.confidence =
         MaxOf({task.result.landmarks[i].confidence :
                  i \in 1..Len(task.result.landmarks)})



\* C31 (as claimed): in AIService.chat_response and AIService.analyze_image every
\* stage reaches its adapter, and the first stage whose adapter yields a non-None
\* result ends the call with that result tagged with the stage's provider: no
\* later stage and no baseline follows it.
C31_FirstResultEnds ==
  (task.entry \in {"ai_chat", "ai_vision"} /\ task.pc = "done") =>
    \A i \in 1..Len(task.outcomes) :
      /\ task.outcomes[i] # "exception"
      /\ task.outcomes[i] = "result" =>
           /\ i = Len(task.calls)
           /\ task.result.ai_source = task.calls[i]



(***************************************************************************)
(* The demo's /chat-plan: destination and duration of a free-text message  *)
(*   (demo_api.py create_travel_plan_from_chat, same code in demo_api_fixed) *)
(***************************************************************************)
\* the characters of the words messages are written with
Chars(w) ==
  CASE w = "Bali" -> <<"B", "a", "l", "i">>
    [] w = "bali" -> <<"b", "a", "l", "i">>
    [] w = "Balikpapan" -> <<"B", "a", "l", "i", "k", "p", "a", "p", "a", "n">>
    [] w = "JAKARTA" -> <<"J", "A", "K", "A", "R", "T", "A">>
    [] w = "Solo" -> <<"S", "o", "l", "o">>
    [] w = "Garut" -> <<"G", "a", "r", "u", "t">>
    [] w = "Mau" -> <<"M", "a", "u">>
    [] w = "ke" -> <<"k", "e">>

Vocabulary == {"Bali", "bali", "Balikpapan", "JAKARTA", "Solo", "Garut", "Mau", "ke"}

MaxWords == 3

\* request.message: the words joined by single blanks
RECURSIVE Joined(_)
Joined(words) ==
  IF words = <<>> THEN <<>>
  ELSE IF Len(words) = 1 THEN Chars(words[1])
  ELSE Chars(Head(words)) \o <<" ">> \o Joined(Tail(words))

UpperCase == [A |-> "a", B |-> "b", G |-> "g", J |-> "j", K |-> "k", M |-> "m",
              R |-> "r", S |-> "s", T |-> "t"]

LowerCase == {"a", "b", "e", "g", "i", "j", "k", "l", "m", "n", "o", "p", "r", "s",
              "t", "u"}

\* str.lower
lower(text) ==
  [i \in 1..Len(text) |->
     IF text[i] \in DOMAIN UpperCase THEN UpperCase[text[i]] ELSE text[i]]

\* keyword in message: the keyword's characters stand somewhere in the message
In(keyword, message) ==
  \E i \in 1..(Len(message) - Len(keyword) + 1) :
    SubSeq(message, i, i + Len(keyword) - 1) = keyword

\* destination_mapping, in the order the dict lists the keys kept here
destination_mapping ==
  <<[keyword |-> <<"b", "a", "l", "i">>, city |-> "Bali"],
    [keyword |-> <<"j", "a", "k", "a", "r", "t", "a">>, city |-> "Jakarta"],
    [keyword |-> <<"b", "a", "l", "i", "k", "p", "a", "p", "a", "n">>,
     city |-> "Balikpapan"],
    [keyword |-> <<"s", "o", "l", "o">>, city |-> "Solo"]>>

\* for keyword, city in destination_mapping.items(): if keyword in message: break
\* (the None the variable starts with is written "": "not detected_destination"
\* holds of both)
RECURSIVE FirstKeyword(_, _)
FirstKeyword(mapping, message) ==
  IF mapping = <<>> THEN ""
  ELSE IF In(Head(mapping).keyword, message) THEN Head(mapping).city
  ELSE FirstKeyword(Tail(mapping), message)

IsLetter(c) == c \in LowerCase \/ c \in DOMAIN UpperCase

\* \b[A-Z][a-z]+\b at position i: the length of the match, or 0
CapitalisedAt(text, i) ==
  LET n == Run(text, i + 1, LowerCase)
      after == i + 1 + n
  IN  IF /\ text[i] \in DOMAIN UpperCase
         /\ (i = 1 \/ ~IsLetter(text[i - 1]))
         /\ n > 0
         /\ (after > Len(text) \/ ~IsLetter(text[after]))
      THEN 1 + n
      ELSE 0

\* regex_module.findall(r'\b[A-Z][a-z]+\b', request.message), from position i on
RECURSIVE findall(_, _)
findall(text, i) ==
  IF i > Len(text) THEN <<>>
  ELSE IF CapitalisedAt(text, i) > 0
  THEN <<SubSeq(text, i, i + CapitalisedAt(text, i) - 1)>>
         \o findall(text, i + CapitalisedAt(text, i))
  ELSE findall(text, i + 1)

\* the word of the vocabulary that is written with these characters
Written(chars) == CHOOSE w \in Vocabulary : Chars(w) = chars

\* detected_destination of create_travel_plan_from_chat
detected_destination(words) ==
  LET request_message == Joined(words)
      message == lower(request_message)
      city == FirstKeyword(destination_mapping, message)
      potential_cities == findall(request_message, 1)
  IN  IF city # "" THEN city
      ELSE IF potential_cities # <<>> THEN Written(potential_cities[1])
      ELSE "Unknown City"


\* The duration is read from a message of tokens: one token per digit and per
\* blank, one token per word otherwise.
DurationTokens == {"0", "1", "5", " ", "hari", "dua", "sehari"}

\* words in which the pattern's literal "hari" matches at the word's start
HariWords == {"hari"}

\* (\d+)\s*hari anchored at position i: the digits of the group, or <<>>.  \d+ is
\* greedy; giving a digit back never helps, since a blank or "hari" would have to
\* match a digit.
HariAt(message, i) ==
  LET n == Run(message, i, Digits)
      q == i + n + Run(message, i + n, {" "})
  IN  IF n > 0 /\ q <= Len(message) /\ message[q] \in HariWords
      THEN SubSeq(message, i, i + n - 1)
      ELSE <<>>

\* regex_module.search(r'(\d+)\s*hari', message): group(1) of the leftmost match
RECURSIVE duration_match(_, _)
duration_match(message, i) ==
  IF i > Len(message) THEN <<>>
  ELSE IF HariAt(message, i) # <<>> THEN HariAt(message, i)
  ELSE duration_match(message, i + 1)

\* number_words, in the order the dict lists the keys kept here
number_words == <<[word |-> "dua", num |-> 2], [word |-> "sehari", num |-> 1]>>

\* word in message, for a message of tokens: the word is a token, or stands
\* inside one ("hari" inside "sehari")
WordIn(word, message) ==
  \E i \in 1..Len(message) :
    \/ message[i] = word
    \/ message[i] = "sehari" /\ word = "hari"

\* for word, num in number_words.items(): if word in message and "hari" in message
RECURSIVE FirstNumberWord(_, _)
FirstNumberWord(table, message) ==
  IF table = <<>> THEN 3
  ELSE IF WordIn(Head(table).word, message) /\ WordIn("hari", message)
  THEN Head(table).num
  ELSE FirstNumberWord(Tail(table), message)

\* detected_duration of create_travel_plan_from_chat (default 3)
detected_duration(message) ==
  IF duration_match(message, 1) # <<>> THEN Decimal(duration_match(message, 1))
  ELSE FirstNumberWord(number_words, message)

ExtractInit ==
  /\ settings = AllUnset
  /\ now = 0
  /\ served = 0
  /\ task = IdleTask
  /\ probe \in {ProbeInput("detected_destination", m) : m \in SeqsUpTo(Vocabulary, MaxWords)}
               \cup {ProbeInput("detected_duration", m) :
                       m \in SeqsUpTo(DurationTokens, MaxMessageLen)}

ApplyDetectedDestination ==
  Apply("detected_destination", detected_destination(probe.input))

ApplyDetectedDuration == Apply("detected_duration", detected_duration(probe.input))

ExtractNext == ApplyDetectedDestination \/ ApplyDetectedDuration

ExtractSpec == ExtractInit /\ [][ExtractNext]_vars

\* the aliases of the table that a word of the message writes, whatever its case
Named(words) ==
  {k \in 1..Len(destination_mapping) :
     \E i \in 1..Len(words) : lower(Chars(words[i])) = destination_mapping[k].keyword}

\* the words of the message that start with a capital followed by small letters
Capitalised(words) ==
  {i \in 1..Len(words) :
     LET w == Chars(words[i])
     IN  /\ Len(w) > 1
         /\ w[1] \in DOMAIN UpperCase
         /\ \A p \in 2..Len(w) : w[p] \in LowerCase}

\* C32 (as claimed): a message that names a city by an alias of the destination
\* table, in any case, gets the canonical name of an alias it names; a message in
\* which no alias occurs gets its first capitalised word, or "Unknown City" when
\* it has none.
C32_AliasToCanonical ==
  (probe.fn = "detected_destination" /\ probe.applied) =>
    LET words == probe.input
    IN  /\ Named(words) # {} =>
             \E k \in Named(words) : probe.output = destination_mapping[k].city
        /\ (\A k \in 1..Len(destination_mapping) :
              ~In(destination_mapping[k].keyword, lower(Joined(words)))) =>
             IF Capitalised(words) # {}
             THEN probe.output =
                    words[CHOOSE i \in Capitalised(words) :
                            \A j \in Capitalised(words) : i <= j]
             ELSE probe.output = "Unknown City"

\* C33 (as claimed): whatever the message, the duration /chat-plan extracts and
\* hands to the planners is an integer from 1 to 14.
C33_DurationInRange ==
  (probe.fn = "detected_duration" /\ probe.applied) =>
    probe.output \in MinDuration..MaxDuration



\* C34: every envelope a chat call returns, from a provider or from the baseline,
\* carries a list of one, two or three suggestions.
C34_SuggestionsBounded ==
  (task.entry \in {"chat", "ai_chat"} /\ task.pc = "done") =>
    /\ "suggestions" \in DOMAIN task.result
    /\ Len(task.result.suggestions) \in 1..MaxSuggestions

\* a provider's answer that names a city, a cost, food and a hotel: four
\* suggestions apply and the first three are kept
C34_Witness ==
  /\ task.entry = "chat"
  /\ task.pc = "done"
  /\ task.result.ai_source # "baseline"
  /\ Contains(task.result.answer, "hotel")
  /\ task.result.suggestions = <<"Tanyakan tentang transportasi antar kota",
                                 "Minta tips menghemat biaya perjalanan",
                                 "Rekomendasi makanan khas daerah lain">>



(***************************************************************************)
(* Two /plan requests served by one event loop                             *)
(***************************************************************************)
\* The event loop runs one coroutine at a time and changes coroutine only at an
\* await, which is where each step above ends.  task is the coroutine that runs,
\* probe.input the one that waits.
ConcurrentInit ==
  /\ settings \in {s \in Settings : ~s.HF_API_KEY /\ ~s.REPLICATE_API_TOKEN
                                      /\ s.WATSONX_PROJECT_ID = s.WATSONX_API_KEY}
  /\ now = 0
  /\ served = 0
  /\ task = IdleTask
  /\ probe = ProbeInput("waiting", IdleTask)

\* the running coroutine awaits and the loop resumes the other one
Resume ==
  /\ probe.fn = "waiting"
  /\ task' = probe.input
  /\ probe' = [probe EXCEPT !.input = task]
  /\ UNCHANGED <<settings, now, served>>

ConcurrentNext ==
  \/ \E rd \in PlanRequests : Request("plan", rd)
  \/ WatsonxInvoke
  \/ \E o \in PostReplies(PlanTexts) : WatsonxReply(o)
  \/ HuggingfaceInvoke
  \/ ReplicateInvoke
  \/ Baseline
  \/ create_travel_plan
  \/ Finish
  \/ Tick
  \/ Resume

ConcurrentSpec == ConcurrentInit /\ [][ConcurrentNext]_vars

\* C35 (as claimed): the envelope of a request depends only on its descriptor, on
\* the configuration and on what its own providers answered: two requests served
\* side by side with the same descriptor and the same outcome at every stage
\* carry the same source tag, and when no provider answered them, the same payload
\* and confidence.
C35_Isolated ==
  LET a == task
      b == probe.input
  IN  (/\ probe.fn = "waiting"
       /\ a.pc = "done" /\ b.pc = "done"
       /\ a.request_data = b.request_data
       /\ a.calls = b.calls
       /\ a.outcomes = b.outcomes) =>
        /\ a.result.ai_source = b.result.ai_source
        /\ a.calls[Len(a.calls)] = "baseline" => a.result = b.result



\* C36 (as claimed): a chat result accepted from a provider stage has a non-empty
\* answer: a text that is empty, shorter than 10 characters, or empty once the
\* echoed prompt up to "Jawaban:" is removed counts as no result.
C36_AnswerNonEmpty ==
  (/\ task.entry = "chat"
   /\ task.pc = "done"
   /\ task.calls[Len(task.calls)] # "baseline") =>
     task.result.answer # <<>>



\* C37 (as claimed): a result a vision adapter returns has every field the
\* /vision route reads (landmarks, summary, confidence), and the route answers an
\* accepted provider result with 200, never with an error.
C37_VisionResultComplete ==
  (/\ task.entry = "vision"
   /\ task.pc \in {"done", "responded"}
   /\ task.outcomes # <<>>
   /\ task.outcomes[Len(task.outcomes)] = "result"
   /\ task.calls[Len(task.calls)] # "baseline") =>
     /\ {"landmarks", "summary", "confidence"} \subseteq DOMAIN task.result
     /\ task.pc = "responded" => task.status = 200



\* C38 (as claimed): when /plan or /chat answers a logged-in caller with an error,
\* no TravelPlan or ChatHistory record of that request has been committed.
C38_NoRecordOnError ==
  (/\ task.entry \in {"plan", "chat"}
   /\ task.pc = "responded"
   /\ task.user
   /\ task.status # 200) =>
     task.saved = <<>>



(***************************************************************************)
(* GET /plan/{plan_id} over the stored travel plans (api/plan.py)          *)
(***************************************************************************)
\* the users of the users table
Users == {"alice", "bob"}

\* what a caller sends as bearer token: nothing, a token that does not decode, a
\* token whose "sub" is a user's email, or one whose "sub" is no user's email
Tokens == {"", "garbage"} \cup Users \cup {"ghost"}

MaxPlans == 3

\* get_current_user_optional: None without a token, on JWTError and when no user
\* has the email of the token; the user otherwise
get_current_user_optional(token) ==
  IF token = "" THEN None
  ELSE IF token = "garbage" THEN None
  ELSE IF token \in Users THEN [id |-> token]
  ELSE None

\* probe.input is the travel_plans table, the row of plan id k at place k;
\* probe.output the last answer of GET /plan/{plan_id}
StoreInit ==
  /\ settings = AllUnset
  /\ now = 0
  /\ served = 0
  /\ task = IdleTask
  /\ probe = ProbeInput("get_travel_plan", <<>>)

\* POST /plan by a logged-in caller: "if current_user:" the row is added with
\* user_id = current_user.id and committed
SavePlan(token) ==
  LET current_user == get_current_user_optional(token)
  IN  /\ probe.fn = "get_travel_plan"
      /\ Len(probe.input) < MaxPlans
      /\ current_user # None
      /\ probe' = [probe EXCEPT !.input = Append(@, [user_id |-> current_user.id]),
                                !.applied = FALSE, !.output = None]
      /\ UNCHANGED <<settings, now, served, task>>

\* GET /plan/{plan_id}: 404 without such a row, 403 for a logged-in caller who is
\* not the row's user, the plan otherwise
get_travel_plan(plan_id, token) ==
  LET current_user == get_current_user_optional(token)
      found == plan_id \in 1..Len(probe.input)
      status == IF ~found THEN 404
                ELSE IF current_user # None /\ probe.input[plan_id].user_id # current_user.id
                THEN 403
                ELSE 200
  IN  /\ probe.fn = "get_travel_plan"
      /\ probe' = [probe EXCEPT !.applied = TRUE,
                                !.output = [plan_id |-> plan_id,
                                            current_user |-> current_user,
                                            status |-> status]]
      /\ UNCHANGED <<settings, now, served, task>>

StoreNext ==
  \/ \E token \in Tokens : SavePlan(token)
  \/ \E plan_id \in 1..(MaxPlans + 1) : \E token \in Tokens : get_travel_plan(plan_id, token)

StoreSpec == StoreInit /\ [][StoreNext]_vars

\* C39 (as claimed): GET /plan/{plan_id} returns a stored plan only to the user
\* who owns it: a caller who is logged in as someone else, or not logged in at all,
\* is refused.
C39_OwnerOnly ==
  (probe.fn = "get_travel_plan" /\ probe.applied /\ probe.output.status = 200) =>
    /\ probe.output.current_user # None
    /\ probe.input[probe.output.plan_id].user_id = probe.output.current_user.id

====
